---------------------------- MODULE Spec2Model ----------------------------
(***************************************************************************)
(* A model of hecs_engine: the Spatial Resolver of engine/src/spatial.rs   *)
(* (process_global_transform, process_transform_hierarchy and the cascade) *)
(* and the instance batching of the ModelRenderer and the TextureRenderer  *)
(* of pipelines/src.                                                       *)
(*                                                                         *)
(* Poses are planar: a Transform holds a translation (x, y), a rotation r  *)
(* that is 1 (no turn) or -1 (a half turn) and a uniform scale s; its      *)
(* affine form has the linear part r * s and the translation (x, y).       *)
(* Affine maps compose as glam::Affine3A does, so composition is not       *)
(* commutative and the order of a parent chain is observable.              *)
(***************************************************************************)
EXTENDS Integers, Sequences, FiniteSets, TLC

\* ------------------------------------------------------------------ bounds

\* Entities the application may spawn in one run (ids 1..NumEntities).
NumEntities == 3

\* Frames (calls of OuterState::tick) in one run.
MaxFrames == 3

\* Ticks explored when a whole tick is one frame.
MaxTicks == 4

Entities == 1..NumEntities

\* What a ParentLink may name: an entity of the run, or the handle of an entity
\* that never exists in it (hecs::Entity::DANGLING, a despawned entity).
Handles == 0..NumEntities

Dangling == CHOOSE h \in Handles : h \notin Entities

\* ------------------------------------------------------- Transform, Affine3A

\* common::Transform {translation, rotation, scale}; s = 0 marks the absent
\* component (a scale of 0 is no pose).
Translate(x, y) == [s |-> 1, r |-> 1, x |-> x, y |-> y]

HalfTurn == [s |-> 1, r |-> -1, x |-> 0, y |-> 0]

Scale2 == [s |-> 2, r |-> 1, x |-> 0, y |-> 0]

NoTransform == [s |-> 0, r |-> 0, x |-> 0, y |-> 0]

\* glam::Affine3A {matrix3, translation}; m = 0 marks the absent GlobalTransform.
Affine(m, x, y) == [m |-> m, x |-> x, y |-> y]

IdentityAffine == Affine(1, 0, 0)

NoAffine == Affine(0, 0, 0)

\* Transform::to_affine: Affine3A::from_scale_rotation_translation.
ToAffine(t) == Affine(t.r * t.s, t.x, t.y)

\* Affine3A * Affine3A: (a * b)(v) = a(b(v)).
Mul(a, b) == Affine(a.m * b.m, a.m * b.x + a.x, a.m * b.y + a.y)

\* LocalTransform {parent, transform}; parent = -1 marks the absent component.
Link(p, t) == [parent |-> p, transform |-> t]

NoLink == Link(-1, NoTransform)

\* The Transform values the application writes, and the ParentLink offsets.
TransformVals == {Translate(0, 1), Scale2}

OffsetVals == {Translate(1, 0), HalfTurn}


\* ------------------------------------------------------------------- state

VARIABLES
    spawned,      \* World: how many entities were ever spawned (ids 1..spawned)
    alive,        \* World: the entities that exist
    transform,    \* World: the Transform component of each entity
    global,       \* World: the GlobalTransform component of each entity
    local,        \* World: the LocalTransform (ParentLink) component of each entity
    pc,           \* OuterState::tick: the step that runs next
    frame,        \* ticks started so far
    rootsLeft,    \* process_transform_hierarchy: the roots not yet iterated
    stack,        \* cascade_transform_x: the pending calls, innermost first
    pre,          \* every GlobalTransform as it was when the resolution pass began
    written,      \* the entities whose GlobalTransform the hierarchy pass wrote
    visits,       \* how often the cascade was called on each entity in this pass
    panicked,     \* an unwrap failed
    model,            \* World: the Model component of each entity
    sprite,           \* World: the Sprite component of each entity
    mesh_storage,     \* ModelRenderer: the ids of the meshes it holds
    texture_storage,  \* ModelRenderer: the ids of the textures it holds
    model_instances,  \* ModelRenderer::instances: mesh id -> texture id -> buffer
    texture_instances,\* TextureRenderer::instances: texture id -> buffer
    model_trace,      \* what the last ModelRenderer::prep found and did
    texture_trace,    \* what the last TextureRenderer::prep found and did
    prepped,          \* RendererState::tick: the pipelines whose prep has run
    op,               \* what App::update did in this frame
    camera,           \* World: the camera component of each entity, if any
    camera_wgpu,      \* World: whether the entity carries a CameraWgpu
    uniform,          \* CameraWgpu::camera_buffer: what the last sync wrote
    ui3d,             \* World: the Ui3d component of each entity
    ui_instances,     \* Ui3dRenderer::instances: entity -> Ui3dData
    ui_trace,         \* what the last Ui3dRenderer::prep found
    pipelines,        \* RendererState::pipelines
    cursor,           \* RendererState::tick: the position of a loop in pipelines
    trace,            \* the steps of the current tick, in the order they ran
    draws,            \* the draw calls recorded in the render pass of this tick
    outcome,          \* how the ticks so far ended, oldest first
    time,             \* Time::last_frame: the instant tick_time stored last
    update_saw,       \* what the last App::update found in State
    keys,             \* State::keys: Input<KeyCode>
    mouse_buttons,    \* State::mouse_buttons: Input<MouseButton>
    last_event,       \* the kind of the last event processed for each key and button
    reset_saw,        \* both inputs as they were when the last reset began
    config,           \* RendererCore::config: the size the surface is configured to
    depth_texture,    \* RendererState::depth_texture: its size
    resized,          \* what the last Resized event found and called
    event,            \* the event the loop delivered last
    wake,             \* ControlFlow: a wake-up is scheduled (WaitUntil)
    redraw,           \* Window::request_redraw was called and is not yet served
    exited,           \* ActiveEventLoop::exit was called
    state_is_some,    \* Runner::state is Some(OuterState)
    states_created,   \* how often OuterState::new was called
    current_mesh_id,  \* CURRENT_MESH_ID: the AtomicU32 of Mesh::load_mesh
    mesh_loading,     \* Mesh::load_mesh: the id each thread holds inside a call
    mesh_handed,      \* the ids fetch_add returned, in the order of the counter
    mesh_loaded,      \* the ids of the meshes load_mesh returned, in that order
    menu,             \* a Ui3d component: its options and its selected
    ui_raw            \* the UiUniformRaw the prep wrote for menu

spatialVars == <<spawned, alive, transform, global, local, pc, frame,
                 rootsLeft, stack, pre, written, visits, panicked>>

batchVars == <<model, sprite, mesh_storage, texture_storage, model_instances,
               texture_instances, model_trace, texture_trace, prepped, op>>

frameVars == <<camera, camera_wgpu, uniform, ui3d, ui_instances, ui_trace,
               pipelines, cursor, trace, draws, outcome>>

inputVars == <<keys, mouse_buttons, reset_saw>>

driverVars == <<time, update_saw, last_event, config, depth_texture, resized,
                event, wake, redraw, exited>>

runnerVars == <<state_is_some, states_created>>

loaderVars == <<current_mesh_id, mesh_loading, mesh_handed, mesh_loaded>>

menuVars == <<menu, ui_raw>>

vars == <<spatialVars, batchVars, frameVars, inputVars, driverVars, runnerVars,
          loaderVars, menuVars>>

NoGlobals == [e \in Entities |-> NoAffine]

NoVisits == [e \in Entities |-> 0]

\* world.get::<&GlobalTransform>(h): Err for a handle of no entity.
GlobalOf(gl, h) == IF h \in Entities THEN gl[h] ELSE NoAffine

\* All orders in which the members of S can be iterated.
Orders(S) == {o \in [1..Cardinality(S) -> S] : \A i, j \in DOMAIN o : o[i] = o[j] => i = j}

\* ---------------------------------------------------------- Spatial Resolver

\* A faulty flat pass: the affine form built from the translation alone.
FlatPassTranslationOnly(tr, gl) ==
    [e \in Entities |->
        IF tr[e] # NoTransform /\ gl[e] # NoAffine
            THEN Affine(1, tr[e].x, tr[e].y) ELSE gl[e]]

\* process_global_transform: the query (&Transform, &mut GlobalTransform) visits
\* every entity that has both components, whatever else it carries.
FlatPass(tr, gl) ==
    [e \in Entities |->
        IF tr[e] # NoTransform /\ gl[e] # NoAffine THEN ToAffine(tr[e]) ELSE gl[e]]

\* Hierarchy.entries: the entities the query for &LocalTransform yields.
HierarchyEntries(loc) == {e \in Entities : loc[e] # NoLink}

\* A faulty fold: an entity is pushed under its parent and under the parent of
\* its parent.
HierarchyLinksTwice(loc, p) ==
    {e \in HierarchyEntries(loc) :
        \/ loc[e].parent = p
        \/ /\ loc[e].parent \in Entities
           /\ loc[loc[e].parent] # NoLink
           /\ loc[loc[e].parent].parent = p}

\* Hierarchy.links.get(p): the children pushed under parent p (empty: no key).
HierarchyLinks(loc, p) == {e \in HierarchyEntries(loc) : loc[e].parent = p}

\* Hierarchy.links.keys().
LinkKeys(loc) == {loc[e].parent : e \in HierarchyEntries(loc)}

\* A faulty root filter: every key of links is taken for a root.
RootsOfUnfiltered(loc) == LinkKeys(loc)

\* roots: the keys of links that are not entries.
RootsOf(loc) == {p \in LinkKeys(loc) : p \notin HierarchyEntries(loc)}

\* One pending call cascade_transform_x(world, links, current, transform).
Call(e, t) == [current |-> e, transform |-> t]

\* The calls a for_each over the child list makes, in the list's order.
CallsFor(order, t) == [i \in DOMAIN order |-> Call(order[i], t)]

\* A faulty composition: the offset applied on the wrong side of the parent pose.
CascadeTransformReversed(loc, current, t) ==
    IF loc[current] # NoLink THEN Mul(ToAffine(loc[current].transform), t) ELSE t

\* cascade_transform_x, first statement: transform *= local.transform.to_affine().
CascadeTransform(loc, current, t) ==
    IF loc[current] # NoLink THEN Mul(t, ToAffine(loc[current].transform)) ELSE t

\* A faulty write: the component is inserted when the entity has none.
CascadeWriteInsert(gl, current, t) ==
    [gl EXCEPT ![current] = t]

\* cascade_transform_x, second statement: the write, when the component is there.
CascadeWrite(gl, current, t) ==
    IF gl[current] # NoAffine THEN [gl EXCEPT ![current] = t] ELSE gl

\* A faulty root lookup: a missing GlobalTransform read as the default pose.
RootTransformOrDefault(gl, root) ==
    IF GlobalOf(gl, root) = NoAffine THEN IdentityAffine ELSE GlobalOf(gl, root)

\* A faulty root lookup: every subtree starts from the default pose.
RootTransformDefault(gl, root) ==
    IF GlobalOf(gl, root) = NoAffine THEN NoAffine ELSE IdentityAffine

\* process_transform_hierarchy, the root closure: the root's GlobalTransform,
\* or Err(_) for a root that has none or does not exist.
RootTransform(gl, root) == GlobalOf(gl, root)

\* A faulty early return: a root without GlobalTransform ends the whole loop.
RootsAfterAbort(left, gl, root) ==
    IF GlobalOf(gl, root) = NoAffine THEN {} ELSE left \ {root}

\* The roots still to iterate once the closure has run for root: Err(_) => return
\* leaves the closure, and for_each goes on with the next root.
RootsAfter(left, gl, root) == left \ {root}

\* ---------------------------------------------------------- Instance Batcher

\* Mesh::id values handed out by Mesh::load_mesh, which counts from 0.
MeshIds == {0, 1}

\* LoadedTexture::id values.
TextureIds == {1, 2}

\* One element of Model::meshes: (Arc<Mesh>, Arc<LoadedTexture>), by their ids.
MeshTexture(m, t) == [mesh |-> m, texture |-> t]

\* A Model component with this meshes vector; NoModel is its absence.
Model(meshes) == [has |-> TRUE, meshes |-> meshes]

NoModel == [has |-> FALSE, meshes |-> <<>>]

\* A Sprite component with this texture; NoSprite is its absence.
Sprite(t) == [has |-> TRUE, texture |-> t]

NoSprite == [has |-> FALSE, texture |-> 0]

\* The meshes vectors the application gives its models: none, one pair, the same
\* pair twice, one mesh under two textures, and two meshes under one texture.
ModelVals ==
    { <<>>,
      <<MeshTexture(0, 1)>>,
      <<MeshTexture(1, 2), MeshTexture(1, 2)>>,
      <<MeshTexture(0, 1), MeshTexture(0, 2)>>,
      <<MeshTexture(0, 1), MeshTexture(1, 1)>> }

\* The batch keys of ModelRenderer.
ModelKeys == MeshIds \X TextureIds

\* HashMap::new().
EmptyMap == [k \in {} |-> 0]

\* HashMap::insert(k, v).
MapPut(f, k, v) == [x \in DOMAIN f \cup {k} |-> IF x = k THEN v ELSE f[x]]

\* HashMap::remove(k).
MapRemove(f, k) == [x \in DOMAIN f \ {k} |-> f[x]]

\* The (mesh id, texture id) pairs of a nested map, as flat_map yields them.
KeysOf(map) ==
    {k \in ModelKeys : k[1] \in DOMAIN map /\ k[2] \in DOMAIN map[k[1]]}

\* The create, update and remove calls one prep made for one key.
NoCalls == [created |-> 0, updated |-> 0, removed |-> 0]

\* query_mut::<(&GlobalTransform, &Model)>(): the entities it yields.
QueryModels(al, gl, mo) == {e \in al : gl[e] # NoAffine /\ mo[e].has}

\* query_mut::<(&GlobalTransform, &Sprite)>(): the entities it yields.
QuerySprites(al, gl, sp) == {e \in al : gl[e] # NoAffine /\ sp[e].has}

\* The same closure with textures_used.insert inside the contains_key test.
PushModelInstanceUsedIfNew(st, mt) ==
    LET m == mt.mesh
        t == mt.texture
        s1 == IF m \in DOMAIN st.acc
                 THEN st
                 ELSE [st EXCEPT !.acc = MapPut(@, m, EmptyMap),
                                 !.mesh_storage = @ \cup {m},
                                 !.meshes_used = @ \cup {m}]
        s2 == IF t \in DOMAIN s1.acc[m]
                 THEN s1
                 ELSE [s1 EXCEPT !.acc = MapPut(@, m, MapPut(s1.acc[m], t, 0)),
                                 !.texture_storage = @ \cup {t},
                                 !.textures_used =
                                     IF t \in st.texture_storage THEN @ ELSE @ \cup {t}]
    IN  [s2 EXCEPT !.acc = MapPut(@, m, MapPut(s2.acc[m], t, s2.acc[m][t] + 1))]

\* The closure run for one (mesh, texture) of one model: the first record of a
\* mesh stores the mesh and marks it used, the first record of a texture under
\* that mesh stores the texture and marks it used, and the record is pushed.
PushModelInstance(st, mt) ==
    LET m == mt.mesh
        t == mt.texture
        s1 == IF m \in DOMAIN st.acc
                 THEN st
                 ELSE [st EXCEPT !.acc = MapPut(@, m, EmptyMap),
                                 !.mesh_storage = @ \cup {m},
                                 !.meshes_used = @ \cup {m}]
        s2 == IF t \in DOMAIN s1.acc[m]
                 THEN s1
                 ELSE [s1 EXCEPT !.acc = MapPut(@, m, MapPut(s1.acc[m], t, 0)),
                                 !.texture_storage = @ \cup {t},
                                 !.textures_used = @ \cup {t}]
    IN  [s2 EXCEPT !.acc = MapPut(@, m, MapPut(s2.acc[m], t, s2.acc[m][t] + 1))]

\* model.meshes.iter().for_each(..).
RECURSIVE FoldMeshes(_, _)
FoldMeshes(meshes, st) ==
    IF meshes = <<>>
       THEN st
       ELSE FoldMeshes(Tail(meshes), PushModelInstance(st, Head(meshes)))

\* The fold over the queried entities.
RECURSIVE FoldModels(_, _, _)
FoldModels(es, mo, st) ==
    IF es = {}
       THEN st
       ELSE LET e == CHOOSE x \in es : \A y \in es : x <= y
            IN  FoldModels(es \ {e}, mo, FoldMeshes(mo[e].meshes, st))

\* previous.remove(&(mesh_id, texture_id)).
PreviousKeep(previous, key) ==
    previous

PreviousRemove(previous, key) == previous \ {key}

\* self.instances.entry(mesh_id).or_insert(HashMap::default()).
MeshEntry(inst, m) == IF m \in DOMAIN inst THEN inst ELSE MapPut(inst, m, EmptyMap)

\* .entry(texture_id): whether and_modify or or_insert_with runs.
BufferNeverFound(inst, m, t) ==
    FALSE

BufferFound(inst, m, t) == t \in DOMAIN inst[m]

\* The closure run for one key of the fold's result: update or create.
ApplyModelKey(st, key, raw) ==
    LET m == key[1]
        t == key[2]
        inst == MeshEntry(st.instances, m)
        found == BufferFound(inst, m, t)
    IN  [st EXCEPT !.previous = PreviousRemove(@, key),
                   !.instances = MapPut(inst, m, MapPut(inst[m], t, raw)),
                   !.calls[key].updated = IF found THEN @ + 1 ELSE @,
                   !.calls[key].created = IF found THEN @ ELSE @ + 1]

\* instances.into_iter().for_each(..) over both levels.
RECURSIVE ApplyModels(_, _, _)
ApplyModels(left, acc, st) ==
    IF left = {}
       THEN st
       ELSE LET key == CHOOSE k \in left : TRUE
            IN  ApplyModels(left \ {key}, acc,
                            ApplyModelKey(st, key, acc[key[1]][key[2]]))

\* self.instances.get_mut(&mesh_id).unwrap().remove(&texture_id).
RemoveModelKey(st, key) ==
    IF key[1] \notin DOMAIN st.instances
       THEN [st EXCEPT !.panicked = TRUE]
       ELSE [st EXCEPT !.instances = MapPut(@, key[1], MapRemove(@[key[1]], key[2])),
                       !.calls[key].removed = @ + 1]

\* previous.into_iter().for_each(..).
RECURSIVE RemoveModels(_, _)
RemoveModels(left, st) ==
    IF left = {} \/ st.panicked
       THEN st
       ELSE LET key == CHOOSE k \in left : TRUE
            IN  RemoveModels(left \ {key}, RemoveModelKey(st, key))

\* storage.retain(|id, _| used.contains(id)).
RetainAll(storage, used) ==
    storage

Retain(storage, used) == storage \cap used

\* ModelRenderer::prep as a whole: its effect on the renderer and what it did.
ModelPrep(inst, meshes, textures, al, gl, mo) ==
    LET previous == KeysOf(inst)
        folded == FoldModels(QueryModels(al, gl, mo), mo,
                             [acc |-> EmptyMap,
                              mesh_storage |-> meshes,
                              texture_storage |-> textures,
                              meshes_used |-> {},
                              textures_used |-> {}])
        applied == ApplyModels(KeysOf(folded.acc), folded.acc,
                               [previous |-> previous,
                                instances |-> inst,
                                calls |-> [k \in ModelKeys |-> NoCalls],
                                panicked |-> FALSE])
        removed == RemoveModels(applied.previous, applied)
    IN  [instances |-> removed.instances,
         mesh_storage |-> Retain(folded.mesh_storage, folded.meshes_used),
         texture_storage |-> Retain(folded.texture_storage, folded.textures_used),
         calls |-> removed.calls,
         panicked |-> removed.panicked]

\* The same closure keeping one record per texture instead of pushing.
PushSpriteOverwrite(st, t, inst) ==
    LET s1 == IF t \in DOMAIN st.acc
                 THEN st
                 ELSE [st EXCEPT !.acc = MapPut(@, t, 0),
                                 !.textures_to_add =
                                     IF t \in DOMAIN inst THEN @ ELSE @ \cup {t}]
    IN  [s1 EXCEPT !.acc = MapPut(@, t, 1)]

\* The same closure remembering the texture when a buffer exists, not when one
\* is missing.
PushSpriteRemembersKept(st, t, inst) ==
    LET s1 == IF t \in DOMAIN st.acc
                 THEN st
                 ELSE [st EXCEPT !.acc = MapPut(@, t, 0),
                                 !.textures_to_add =
                                     IF t \in DOMAIN inst THEN @ \cup {t} ELSE @]
    IN  [s1 EXCEPT !.acc = MapPut(@, t, s1.acc[t] + 1)]

\* The closure of TextureRenderer's fold for one sprite: the first record of a
\* texture that has no buffer yet remembers the texture, and the record is pushed.
PushSprite(st, t, inst) ==
    LET s1 == IF t \in DOMAIN st.acc
                 THEN st
                 ELSE [st EXCEPT !.acc = MapPut(@, t, 0),
                                 !.textures_to_add =
                                     IF t \in DOMAIN inst THEN @ ELSE @ \cup {t}]
    IN  [s1 EXCEPT !.acc = MapPut(@, t, s1.acc[t] + 1)]

\* The fold over the queried entities.
RECURSIVE FoldSprites(_, _, _, _)
FoldSprites(es, sp, inst, st) ==
    IF es = {}
       THEN st
       ELSE LET e == CHOOSE x \in es : \A y \in es : x <= y
            IN  FoldSprites(es \ {e}, sp, inst, PushSprite(st, sp[e].texture, inst))

\* TextureInstanceBuffer {texture, buffer}: the texture held and the record count.
TextureInstanceBuffer(t, raw) == [texture |-> t, buffer |-> raw]

\* The closure run for one texture id of the fold's result: update, or create
\* with textures_to_add.remove(&id).unwrap().
ApplySprite(st, id, raw) ==
    IF id \in DOMAIN st.instances
       THEN [st EXCEPT !.previous = PreviousRemove(@, id),
                       !.instances = MapPut(@, id,
                           TextureInstanceBuffer(st.instances[id].texture, raw)),
                       !.calls[id].updated = @ + 1]
       ELSE IF id \notin st.textures_to_add
               THEN [st EXCEPT !.panicked = TRUE]
               ELSE [st EXCEPT !.previous = PreviousRemove(@, id),
                               !.textures_to_add = @ \ {id},
                               !.instances = MapPut(@, id, TextureInstanceBuffer(id, raw)),
                               !.calls[id].created = @ + 1]

\* instances.into_iter().for_each(..).
RECURSIVE ApplySprites(_, _, _)
ApplySprites(ids, acc, st) ==
    IF ids = {} \/ st.panicked
       THEN st
       ELSE LET id == CHOOSE k \in ids : TRUE
            IN  ApplySprites(ids \ {id}, acc, ApplySprite(st, id, acc[id]))

\* self.instances.remove(&to_remove).
RemoveSpriteKey(st, id) ==
    [st EXCEPT !.instances = MapRemove(@, id),
               !.calls[id].removed = @ + 1]

\* previous.into_iter().for_each(..).
RECURSIVE RemoveSprites(_, _)
RemoveSprites(ids, st) ==
    IF ids = {}
       THEN st
       ELSE LET id == CHOOSE k \in ids : TRUE
            IN  RemoveSprites(ids \ {id}, RemoveSpriteKey(st, id))

\* TextureRenderer::prep as a whole: its effect on the renderer and what it did.
TexturePrep(inst, al, gl, sp) ==
    LET folded == FoldSprites(QuerySprites(al, gl, sp), sp, inst,
                              [acc |-> EmptyMap, textures_to_add |-> {}])
        applied == ApplySprites(DOMAIN folded.acc, folded.acc,
                                [previous |-> DOMAIN inst,
                                 textures_to_add |-> folded.textures_to_add,
                                 instances |-> inst,
                                 calls |-> [k \in TextureIds |-> NoCalls],
                                 panicked |-> FALSE])
        removed == IF applied.panicked
                      THEN applied
                      ELSE RemoveSprites(applied.previous, applied)
    IN  [instances |-> removed.instances,
         calls |-> removed.calls,
         panicked |-> removed.panicked]

\* What a prep leaves behind for inspection: instances and the storages as they
\* were when it began, and the calls it made per key.
ModelTrace(before, meshes, textures, calls) ==
    [before |-> before, mesh_storage |-> meshes, texture_storage |-> textures,
     calls |-> calls]

TextureTrace(before, calls) == [before |-> before, calls |-> calls]

\* Renderer::new of both pipelines: empty maps.
InitRenderers ==
    /\ model = [e \in Entities |-> NoModel]
    /\ sprite = [e \in Entities |-> NoSprite]
    /\ mesh_storage = {}
    /\ texture_storage = {}
    /\ model_instances = EmptyMap
    /\ texture_instances = EmptyMap
    /\ model_trace = ModelTrace(EmptyMap, {}, {}, [k \in ModelKeys |-> NoCalls])
    /\ texture_trace = TextureTrace(EmptyMap, [k \in TextureIds |-> NoCalls])
    /\ prepped = {}
    /\ op = "none"

\* ------------------------------------------------------------------ Renderer

\* The pipelines an application can register: R in add_pipeline::<R>.
PipelineKinds == {"model", "texture", "ui3d"}

\* The priorities it registers them with.
Priorities == {0, 1, 2}

\* RendererData {priority, pipeline}, with the position of its add_pipeline call
\* among all calls.
RendererData(kind, priority, registered) ==
    [kind |-> kind, priority |-> priority, registered |-> registered]

\* Where sort_by_key puts an element whose key equals others': before them.
InsertBeforeEqual(sorted, x) ==
    LET n == Cardinality({i \in DOMAIN sorted : sorted[i].priority < x.priority})
    IN  SubSeq(sorted, 1, n) \o <<x>> \o SubSeq(sorted, n + 1, Len(sorted))

\* Where the stable sort_by_key puts one more element of a sorted vector: after
\* every element whose key is not greater.
InsertByKey(sorted, x) ==
    LET n == Cardinality({i \in DOMAIN sorted : sorted[i].priority <= x.priority})
    IN  SubSeq(sorted, 1, n) \o <<x>> \o SubSeq(sorted, n + 1, Len(sorted))

\* self.pipelines.sort_by_key(|val| val.priority): a stable sort.
RECURSIVE SortByKey(_)
SortByKey(v) ==
    IF v = <<>>
       THEN <<>>
       ELSE InsertByKey(SortByKey(SubSeq(v, 1, Len(v) - 1)), v[Len(v)])

\* RendererState::add_pipeline: push, then sort.
AddPipelineTo(ps, kind, priority) ==
    SortByKey(Append(ps, RendererData(kind, priority, Len(ps) + 1)))

\* The camera components: PerspectiveCamera, OrthographicCamera, or neither.
CameraKinds == {"perspective", "orthographic"}

\* CameraUniformRaw::new(view_projection, camera_position); NoUniform is a
\* buffer no sync has written.
CameraUniformRaw(view, x, y) == [view |-> view, x |-> x, y |-> y]

NoUniform == CameraUniformRaw(NoAffine, 0, 0)

\* get_camera_uniform: PerspectiveCamera looks from the translation along the
\* rotation (the inverse of the pose), OrthographicCamera uses the rotation and
\* the negated translation.
CameraUniform(kind, t) ==
    IF kind = "perspective"
       THEN CameraUniformRaw(Affine(t.r, -(t.r * t.x), -(t.r * t.y)), t.x, t.y)
       ELSE CameraUniformRaw(Affine(t.r, -t.x, -t.y), t.x, t.y)

\* sys_prep_perspective_cameras and sys_prep_orthographic_cameras: every entity
\* with (CameraWgpu, camera, Transform) has its uniform rewritten.
SyncCameras(al, cam, wgpu, tr, un) ==
    [e \in Entities |->
        IF e \in al /\ wgpu[e] /\ cam[e] \in CameraKinds /\ tr[e] # NoTransform
           THEN CameraUniform(cam[e], tr[e])
           ELSE un[e]]

\* The same query for a camera of either kind.
RenderCamerasAnyKind(al, cam, wgpu) ==
    {e \in al : cam[e] \in CameraKinds /\ wgpu[e]}

\* query_mut::<(&PerspectiveCamera, &CameraWgpu)>(): the cameras render can use.
RenderCameras(al, cam, wgpu) == {e \in al : cam[e] = "perspective" /\ wgpu[e]}

\* The same query without the GlobalTransform.
UiCamerasAny(al, cam, gl) ==
    {e \in al : cam[e] = "perspective"}

\* query::<(&PerspectiveCamera, &GlobalTransform)>(): the cameras Ui3dRenderer's
\* prep can use.
UiCameras(al, cam, gl) == {e \in al : cam[e] = "perspective" /\ gl[e] # NoAffine}

\* A Ui3d component with these options (each option by its length); NoUi3d is
\* its absence.
Ui3d(options) == [has |-> TRUE, options |-> options]

NoUi3d == [has |-> FALSE, options |-> <<>>]

\* glam::Affine3A::look_at_lh(eye, center, Y): the view from eye towards center,
\* a half turn when center lies behind.
LookAt(eye, center) ==
    LET r == IF center.x >= eye.x THEN 1 ELSE -1
    IN  Affine(r, -(r * eye.x), -(r * eye.y))

\* "Force all ui to look at camera": every (GlobalTransform, Ui3d) is rewritten.
FaceCamera(al, gl, ui, cam_pos) ==
    [e \in Entities |->
        IF e \in al /\ gl[e] # NoAffine /\ ui[e].has
           THEN LookAt(gl[e], cam_pos)
           ELSE gl[e]]

\* Ui3dData as insert_ui builds it: size [1, 1]; born tells one bundle of an
\* entity from a later one.
Ui3dData(born, size) == [born |-> born, size |-> size]

\* ui.options.iter().reduce(|a, b| match a.len() < b.len() { true => a, false => b }).
RECURSIVE ReduceLines(_, _)
ReduceLines(a, rest) ==
    IF rest = <<>>
       THEN a
       ELSE ReduceLines(IF a < Head(rest) THEN a ELSE Head(rest), Tail(rest))

\* The size the closure writes into the bundle, in units of font_size; a Ui3d
\* without options leaves the bundle's size alone.
UiSize(data, options) ==
    IF options = <<>>
       THEN data.size
       ELSE <<ReduceLines(Head(options), Tail(options)), Len(options)>>

\* A Ui3d with its options (each option by its length) and its selected.
Ui3dMenu(options, selected) == [options |-> options, selected |-> selected]

\* Ui3d::default(): no options, selected 0.
Ui3dDefault == Ui3dMenu(<<>>, 0)

\* Ui3d::selected is a u8; the model gives it SelectedBits bits.
SelectedBits == 3

\* "as u8": the value narrowed to the width of selected.
AsU8(n) == n % (2 ^ SelectedBits)

\* Ord::clamp(self, min, max).
Clamp(v, min, max) == IF v < min THEN min ELSE IF v > max THEN max ELSE v

\* let longest_line = ui.options.iter().reduce(..): the line the panel is as
\* wide as, of a Ui3d that has options.
LongestLine(options) == ReduceLines(Head(options), Tail(options))

\* let selected = ui.selected.clamp(0, ui.options.len() as u8).
Selected(ui) == Clamp(ui.selected, 0, AsU8(Len(ui.options)))

\* No UiUniformRaw was written.
NoUiUniformRaw == [written |-> FALSE]

\* UiUniformRaw {size, selection_range_y, ..} as the closure builds it: the size
\* in units of font_size, selection_range_y in units of option_range, which is
\* 1 / option_count.
UiUniformRaw(ui) ==
    [written |-> TRUE,
     size |-> <<LongestLine(ui.options), Len(ui.options)>>,
     option_count |-> Len(ui.options),
     selection_range_y |-> <<Selected(ui), Selected(ui) + 1>>]

\* The closure of Ui3dRenderer::prep from "Build UI background" on: a Ui3d
\* without options returns before anything is written.
UiBackground(ui, raw) ==
    IF ui.options = <<>> THEN raw ELSE UiUniformRaw(ui)

\* The closure of Ui3dRenderer::prep for one queried entity.
PrepUi(inst, e, ui, now) ==
    LET with == IF e \in DOMAIN inst THEN inst ELSE MapPut(inst, e, Ui3dData(now, <<1, 1>>))
    IN  MapPut(with, e, Ui3dData(with[e].born, UiSize(with[e], ui[e].options)))

\* query_mut::<(&Ui3d, &GlobalTransform)>().for_each(..).
RECURSIVE PrepUis(_, _, _, _)
PrepUis(es, inst, ui, now) ==
    IF es = {}
       THEN inst
       ELSE LET e == CHOOSE x \in es : \A y \in es : x <= y
            IN  PrepUis(es \ {e}, PrepUi(inst, e, ui, now), ui, now)

\* The entities the loop of Ui3dRenderer::prep is run for.
QueryUis(al, gl, ui) == {e \in al : ui[e].has /\ gl[e] # NoAffine}

\* previous after the loop removed every queried entity.
UiPreviousLeftAll(inst, seen) ==
    {}

UiPreviousLeft(inst, seen) == DOMAIN inst \ seen

\* "Remove unused text data".
RECURSIVE RemoveUis(_, _)
RemoveUis(es, inst) ==
    IF es = {}
       THEN inst
       ELSE LET e == CHOOSE x \in es : TRUE
            IN  RemoveUis(es \ {e}, MapRemove(inst, e))

\* Ui3dRenderer::prep past the camera lookup, with the camera the query yielded
\* first: its effect on instances and on the GlobalTransforms.
Ui3dPrep(inst, al, gl, ui, cam_pos, now) ==
    LET faced == FaceCamera(al, gl, ui, cam_pos)
        seen == QueryUis(al, faced, ui)
        prepped_ui == PrepUis(seen, inst, ui, now)
    IN  [instances |-> RemoveUis(UiPreviousLeft(inst, seen), prepped_ui),
         global |-> faced]

\* What a Ui3dRenderer::prep leaves behind for inspection: instances and the
\* GlobalTransforms as they were when it began, and whether it ran in this tick.
UiTrace(ran, before, gl) == [ran |-> ran, before |-> before, global |-> gl]

\* The draw calls of one render: per key the instance counts of its draws.
NoDraws ==
    [model |-> [k \in ModelKeys |-> <<>>],
     texture |-> [t \in TextureIds |-> <<>>],
     ui3d |-> [e \in Entities |-> <<>>]]

\* The inner loop of ModelRenderer::render for one mesh: a draw per texture, or
\* the unwrap of texture_storage.get fails.
RECURSIVE DrawTextures(_, _, _, _, _)
DrawTextures(ts, m, inst, textures, st) ==
    IF ts = {} \/ st.panicked
       THEN st
       ELSE LET t == CHOOSE x \in ts : TRUE
            IN  DrawTextures(ts \ {t}, m, inst, textures,
                    IF t \notin textures
                       THEN [st EXCEPT !.panicked = TRUE]
                       ELSE [st EXCEPT !.draws[<<m, t>>] = Append(@, inst[m][t])])

\* The outer loop of ModelRenderer::render in the order the HashMap yields the
\* meshes: the unwrap of mesh_storage.get fails for a mesh that was pruned.
RECURSIVE DrawMeshes(_, _, _, _, _)
DrawMeshes(order, inst, meshes, textures, st) ==
    IF order = <<>> \/ st.panicked
       THEN st
       ELSE LET m == Head(order)
            IN  DrawMeshes(Tail(order), inst, meshes, textures,
                    IF m \notin meshes
                       THEN [st EXCEPT !.panicked = TRUE]
                       ELSE DrawTextures(DOMAIN inst[m], m, inst, textures, st))

\* The loop of TextureRenderer::render: one draw per key of instances.
DrawSprites(inst) ==
    [t \in TextureIds |-> IF t \in DOMAIN inst THEN <<inst[t].buffer>> ELSE <<>>]

\* The loops of Ui3dRenderer::render: the background and the text of every
\* bundle of instances.
DrawUis(inst) ==
    [e \in Entities |-> IF e \in DOMAIN inst THEN <<"background", "text">> ELSE <<>>]

\* One step of a tick as trace records it.
Step(name, kind) == [step |-> name, kind |-> kind]

\* The order of OuterState::tick and, inside it, of RendererState::tick.
StepAfterPrepFirst(step) ==
    CASE step = "update" -> "camera_sync"
      [] step = "flat" -> "hierarchy"
      [] step = "hierarchy" -> "acquire"
      [] step = "camera_sync" -> "prep"
      [] step = "prep" -> "flat"
      [] step = "render" -> "submit"
      [] step = "submit" -> "reset_input"
      [] OTHER -> "update"

StepAfter(step) ==
    CASE step = "update" -> "flat"
      [] step = "flat" -> "hierarchy"
      [] step = "hierarchy" -> "camera_sync"
      [] step = "camera_sync" -> "prep"
      [] step = "prep" -> "acquire"
      [] step = "render" -> "submit"
      [] step = "submit" -> "reset_input"
      [] OTHER -> "update"

\* get_current_texture(): Ok opens the render pass, Err returns from the tick.
AfterAcquireAlwaysRender(ok) ==
    "render"

AfterAcquire(ok) == IF ok THEN "render" ELSE "reset_input"

\* --------------------------------------------------------------- Frame Driver

\* The keys and the mouse buttons the window reports.
KeyCodes == {"KeyA"}

MouseButtons == {"Left"}

\* Input<T> {pressed, just_pressed, released}.
Input(p, j, r) == [pressed |-> p, just_pressed |-> j, released |-> r]

\* Input::default().
InputDefault == Input({}, {}, {})

\* A faulty release: the key is forgotten without being reported as released.
ProcessInputsSilentRelease(input, val, pressed) ==
    IF pressed
       THEN [input EXCEPT !.pressed = @ \cup {val}, !.just_pressed = @ \cup {val}]
       ELSE [input EXCEPT !.pressed = @ \ {val},
                          !.released = IF val \in input.pressed
                                          THEN @ \cup {val} ELSE @]

\* tools::process_inputs(input, val, pressed).
ProcessInputs(input, val, pressed) ==
    IF pressed
       THEN [input EXCEPT !.pressed = @ \cup {val}, !.just_pressed = @ \cup {val}]
       ELSE [input EXCEPT !.pressed = @ \ {val}, !.released = @ \cup {val}]

\* A faulty reset: pressed is cleared with the two per-frame sets.
ResetInputAll(input) ==
    InputDefault

\* tools::reset_input(input).
ResetInput(input) == [input EXCEPT !.just_pressed = {}, !.released = {}]

\* Both inputs at the moment the reset of a tick begins.
ResetSaw(k, m) == [keys |-> k, mouse_buttons |-> m]

\* tools::tick_time: last_frame = Instant::now(), the instant of this tick.
TickTime(t, now) == now

\* A faulty tick: App::update runs before tick_time and finds the time of the
\* tick before.
AppSeesTimeBefore(ticked, before) ==
    before

\* App::update runs after tick_time and finds the time of this tick.
AppSeesTime(ticked, before) == ticked

\* What App::update finds in State: the time and both inputs.
UpdateSaw(t, k, m) == [time |-> t, keys |-> k, mouse_buttons |-> m]

\* common::Size {width, height}.
Size(w, h) == [width |-> w, height |-> h]

\* Window::size() when the state is created.
WindowSize == Size(2, 2)

\* The sizes a Resized event reports.
EventSizes == {Size(0, 0), Size(0, 3), Size(3, 0), Size(3, 3), Size(2, 2)}

\* A faulty test: only a size without any area at all is refused.
ZeroAreaBoth(size) ==
    size.width = 0 /\ size.height = 0

\* window_event, Resized: new_size.width == 0 || new_size.height == 0.
ZeroArea(size) == size.width = 0 \/ size.height = 0

\* The surface configuration and the depth texture, by their sizes.
Surface(cfg, depth) == [config |-> cfg, depth_texture |-> depth]

\* A faulty resize: the surface is configured and the depth texture kept.
RendererResizeKeepsDepth(cfg, depth, new_size) ==
    Surface(new_size, depth)

\* RendererState::resize: config.width and config.height are set, the surface
\* configured, and the depth texture created again with new_size.
RendererResize(cfg, depth, new_size) == Surface(new_size, new_size)

\* One call a Resized event makes.
ResizeCall(callee, size) == [callee |-> callee, size |-> size]

\* window_event, Resized: nothing for a size without area, else
\* RendererState::resize and then App::resize, with the size of the event.
ResizeCalls(size) ==
    IF ZeroArea(size)
       THEN <<>>
       ELSE <<ResizeCall("renderer", size), ResizeCall("app", size)>>

\* What a Resized event found and did.
Resized(size, cfg, depth, calls) ==
    [size |-> size, config |-> cfg, depth_texture |-> depth, calls |-> calls]

\* Time::default(), Input::default() twice, a surface and a depth texture of the
\* size of the window, the default ControlFlow, no event yet.
InitDriver ==
    /\ time = 0
    /\ update_saw = UpdateSaw(0, InputDefault, InputDefault)
    /\ keys = InputDefault
    /\ mouse_buttons = InputDefault
    /\ last_event = [k \in KeyCodes \cup MouseButtons |-> "none"]
    /\ reset_saw = ResetSaw(InputDefault, InputDefault)
    /\ config = WindowSize
    /\ depth_texture = WindowSize
    /\ resized = Resized(WindowSize, WindowSize, WindowSize, <<>>)
    /\ event = "none"
    /\ wake = FALSE
    /\ redraw = FALSE
    /\ exited = FALSE

\* --------------------------------------------------------------- Mesh loader

\* The width of the id counter in bits (an AtomicU32 in the program) and the
\* number of calls of load_mesh that are explored.
MeshIdBits == 2

MaxLoads == 5

\* The threads that load meshes.
MeshThreads == {1, 2, 3}

\* A thread that is not inside load_mesh.
NoMeshId == -1

\* What fetch_add found and what it stored.
Fetched(old, new) == [old |-> old, new |-> new]

\* A faulty counter: the old value is returned and nothing is added.
FetchAddNothing(counter) ==
    Fetched(counter, counter)

\* AtomicU32::fetch_add(1, Relaxed): one atomic read-modify-write that returns
\* the old value and stores the sum, wrapping at the width of the counter.
FetchAdd(counter) == Fetched(counter, (counter + 1) % (2 ^ MeshIdBits))

\* static CURRENT_MESH_ID: AtomicU32 = AtomicU32::new(0); no call is under way.
InitLoader ==
    /\ current_mesh_id = 0
    /\ mesh_loading = [t \in MeshThreads |-> NoMeshId]
    /\ mesh_handed = <<>>
    /\ mesh_loaded = <<>>

\* World::new() has no cameras and no Ui3d; RendererState::new has no pipelines.
InitRenderer ==
    /\ camera = [e \in Entities |-> "none"]
    /\ camera_wgpu = [e \in Entities |-> FALSE]
    /\ uniform = [e \in Entities |-> NoUniform]
    /\ ui3d = [e \in Entities |-> NoUi3d]
    /\ ui_instances = EmptyMap
    /\ ui_trace = UiTrace(FALSE, EmptyMap, NoGlobals)
    /\ cursor = 0
    /\ trace = <<>>
    /\ draws = NoDraws
    /\ outcome = <<"none", "none">>

\* ------------------------------------------------------------ the frame loop

InitWorld ==
    /\ spawned = 0
    /\ alive = {}
    /\ transform = [e \in Entities |-> NoTransform]
    /\ global = NoGlobals
    /\ local = [e \in Entities |-> NoLink]

\* What OuterState::new gives every field, and the statics of the program.
\* The Ui3d the panel is built for, before a prep saw it.
InitMenu ==
    /\ menu = Ui3dDefault
    /\ ui_raw = NoUiUniformRaw

InitFields ==
    /\ InitWorld
    /\ pc = "update"
    /\ frame = 0
    /\ rootsLeft = {}
    /\ stack = <<>>
    /\ pre = NoGlobals
    /\ written = {}
    /\ visits = NoVisits
    /\ panicked = FALSE
    /\ InitRenderers
    /\ InitRenderer
    /\ InitDriver
    /\ InitLoader

\* The state after the first resumed callback: Runner::state is Some.
InitEngine ==
    /\ InitFields
    /\ InitMenu
    /\ state_is_some = TRUE
    /\ states_created = 1

\* OuterState::new before App::new registered a pipeline.
InitSpatial ==
    /\ InitEngine
    /\ pipelines = <<>>

\* App::update runs first in OuterState::tick; what follows is common to every
\* change the application makes to the world in one update.
BeginTick ==
    /\ pc = "update"
    /\ frame < MaxFrames
    /\ ~panicked
    /\ pc' = "flat"
    /\ frame' = frame + 1
    /\ pre' = NoGlobals
    /\ written' = {}
    /\ visits' = NoVisits
    /\ UNCHANGED <<rootsLeft, stack, panicked>>
    /\ UNCHANGED batchVars
    /\ UNCHANGED frameVars
    /\ UNCHANGED <<inputVars, driverVars, runnerVars, loaderVars, menuVars>>

\* world.spawn(bundle): a GlobalTransform or none, a LocalTransform or none.
Spawn ==
    /\ BeginTick
    /\ spawned < NumEntities
    /\ \E gl \in {NoAffine, IdentityAffine},
          lk \in {NoLink} \cup {Link(p, t) : p \in Handles, t \in OffsetVals} :
          /\ spawned' = spawned + 1
          /\ alive' = alive \cup {spawned + 1}
          /\ global' = [global EXCEPT ![spawned + 1] = gl]
          /\ local' = [local EXCEPT ![spawned + 1] = lk]
    /\ UNCHANGED transform

\* world.despawn(e).
Despawn ==
    /\ BeginTick
    /\ \E e \in alive :
          /\ alive' = alive \ {e}
          /\ transform' = [transform EXCEPT ![e] = NoTransform]
          /\ global' = [global EXCEPT ![e] = NoAffine]
          /\ local' = [local EXCEPT ![e] = NoLink]
    /\ UNCHANGED spawned

\* world.insert_one(e, Transform) or a write through &mut Transform.
SetTransform ==
    /\ BeginTick
    /\ \E e \in alive, t \in TransformVals :
          /\ transform[e] # t
          /\ transform' = [transform EXCEPT ![e] = t]
    /\ UNCHANGED <<spawned, alive, global, local>>

\* world.remove_one::<Transform>(e).
RemoveTransform ==
    /\ BeginTick
    /\ \E e \in alive :
          /\ transform[e] # NoTransform
          /\ transform' = [transform EXCEPT ![e] = NoTransform]
    /\ UNCHANGED <<spawned, alive, global, local>>

\* world.insert_one(e, GlobalTransform::default()).
InsertGlobal ==
    /\ BeginTick
    /\ \E e \in alive :
          /\ global[e] = NoAffine
          /\ global' = [global EXCEPT ![e] = IdentityAffine]
    /\ UNCHANGED <<spawned, alive, transform, local>>

\* world.remove_one::<GlobalTransform>(e).
RemoveGlobal ==
    /\ BeginTick
    /\ \E e \in alive :
          /\ global[e] # NoAffine
          /\ global' = [global EXCEPT ![e] = NoAffine]
    /\ UNCHANGED <<spawned, alive, transform, local>>

\* world.insert_one(e, LocalTransform {parent, transform}) or a write through
\* &mut LocalTransform: a new parent, a new offset, or both.
SetLocal ==
    /\ BeginTick
    /\ \E e \in alive, p \in Handles, t \in OffsetVals :
          /\ local[e] # Link(p, t)
          /\ local' = [local EXCEPT ![e] = Link(p, t)]
    /\ UNCHANGED <<spawned, alive, transform, global>>

\* world.remove_one::<LocalTransform>(e).
RemoveLocal ==
    /\ BeginTick
    /\ \E e \in alive :
          /\ local[e] # NoLink
          /\ local' = [local EXCEPT ![e] = NoLink]
    /\ UNCHANGED <<spawned, alive, transform, global>>

\* An update that leaves the world alone (game/src/lib.rs: Game::update).
NoChange ==
    /\ BeginTick
    /\ UNCHANGED <<spawned, alive, transform, global, local>>

\* spatial::process_global_transform(&mut self.state).
ProcessGlobalTransform ==
    /\ pc = "flat"
    /\ pre' = global
    /\ global' = FlatPass(transform, global)
    /\ pc' = "hierarchy"
    /\ UNCHANGED <<spawned, alive, transform, local, frame, rootsLeft, stack,
                   written, visits, panicked>>
    /\ UNCHANGED batchVars
    /\ UNCHANGED frameVars
    /\ UNCHANGED <<inputVars, driverVars, runnerVars, loaderVars, menuVars>>

\* process_transform_hierarchy: the fold that builds the Hierarchy and the roots.
BuildHierarchy ==
    /\ pc = "hierarchy"
    /\ rootsLeft' = RootsOf(local)
    /\ stack' = <<>>
    /\ pc' = "roots"
    /\ UNCHANGED <<spawned, alive, transform, global, local, frame, pre, written,
                   visits, panicked>>
    /\ UNCHANGED batchVars
    /\ UNCHANGED frameVars
    /\ UNCHANGED <<inputVars, driverVars, runnerVars, loaderVars, menuVars>>

\* roots.into_iter().for_each: one root, in the order the HashMap yields them.
VisitRoot ==
    /\ pc = "roots"
    /\ stack = <<>>
    /\ ~panicked
    /\ \E root \in rootsLeft :
          /\ rootsLeft' = RootsAfter(rootsLeft, global, root)
          /\ IF RootTransform(global, root) = NoAffine
                THEN UNCHANGED <<stack, panicked>>
                ELSE IF root \notin LinkKeys(local)
                        \* hierarchy.links.get(root).unwrap()
                        THEN panicked' = TRUE /\ UNCHANGED stack
                        ELSE /\ \E order \in Orders(HierarchyLinks(local, root)) :
                                   stack' = CallsFor(order, RootTransform(global, root))
                             /\ UNCHANGED panicked
    /\ UNCHANGED <<spawned, alive, transform, global, local, pc, frame, pre,
                   written, visits>>
    /\ UNCHANGED batchVars
    /\ UNCHANGED frameVars
    /\ UNCHANGED <<inputVars, driverVars, runnerVars, loaderVars, menuVars>>

\* One call of cascade_transform_x: compose, write, then call it on the children.
Cascade ==
    /\ pc = "roots"
    /\ stack # <<>>
    /\ LET current == Head(stack).current
           t == CascadeTransform(local, current, Head(stack).transform)
       IN  /\ global' = CascadeWrite(global, current, t)
           /\ written' = IF global[current] # NoAffine
                            THEN written \cup {current} ELSE written
           /\ visits' = [visits EXCEPT ![current] = @ + 1]
           /\ \E order \in Orders(HierarchyLinks(local, current)) :
                 stack' = CallsFor(order, t) \o Tail(stack)
    /\ UNCHANGED <<spawned, alive, transform, local, pc, frame, rootsLeft, pre,
                   panicked>>
    /\ UNCHANGED batchVars
    /\ UNCHANGED frameVars
    /\ UNCHANGED <<inputVars, driverVars, runnerVars, loaderVars, menuVars>>

\* process_transform_hierarchy returns: every root was iterated.
FinishHierarchy ==
    /\ pc = "roots"
    /\ stack = <<>>
    /\ rootsLeft = {}
    /\ pc' = "update"
    /\ UNCHANGED <<spawned, alive, transform, global, local, frame, rootsLeft,
                   stack, pre, written, visits, panicked>>
    /\ UNCHANGED batchVars
    /\ UNCHANGED frameVars
    /\ UNCHANGED <<inputVars, driverVars, runnerVars, loaderVars, menuVars>>

Next ==
    \/ Spawn
    \/ Despawn
    \/ SetTransform
    \/ RemoveTransform
    \/ InsertGlobal
    \/ RemoveGlobal
    \/ SetLocal
    \/ RemoveLocal
    \/ NoChange
    \/ ProcessGlobalTransform
    \/ BuildHierarchy
    \/ VisitRoot
    \/ Cascade
    \/ FinishHierarchy

Spec == InitSpatial /\ [][Next]_vars

\* A resolution pass has run to its end and the application has not run since.
Resolved == pc = "update" /\ frame > 0

\* ------------------------------------------------- the frame loop, batch view

\* The Instance Batcher reads which entities carry a GlobalTransform and a
\* renderable component, never the pose itself, and the spatial passes add and
\* remove no component: this view of OuterState::tick goes from App::update
\* straight to the prep loop of RendererState::tick.
BeginFrame ==
    /\ pc = "update"
    /\ frame < MaxFrames
    /\ ~panicked
    /\ pc' = "prep"
    /\ frame' = frame + 1
    /\ prepped' = {}
    /\ UNCHANGED <<transform, local, rootsLeft, stack, pre, written, visits,
                   panicked>>
    /\ UNCHANGED <<mesh_storage, texture_storage, model_instances,
                   texture_instances, model_trace, texture_trace>>
    /\ UNCHANGED frameVars
    /\ UNCHANGED <<inputVars, driverVars, runnerVars, loaderVars, menuVars>>

\* The bundles the application spawns: no renderable, a Model, or a Sprite.
Renderables ==
    {[model |-> NoModel, sprite |-> NoSprite]}
        \cup {[model |-> Model(ms), sprite |-> NoSprite] : ms \in ModelVals}
        \cup {[model |-> NoModel, sprite |-> Sprite(t)] : t \in TextureIds}

\* world.spawn(bundle): a GlobalTransform or none, and a renderable or none.
SpawnRenderable ==
    /\ BeginFrame
    /\ spawned < NumEntities
    /\ \E gl \in {NoAffine, IdentityAffine}, r \in Renderables :
          /\ spawned' = spawned + 1
          /\ alive' = alive \cup {spawned + 1}
          /\ global' = [global EXCEPT ![spawned + 1] = gl]
          /\ model' = [model EXCEPT ![spawned + 1] = r.model]
          /\ sprite' = [sprite EXCEPT ![spawned + 1] = r.sprite]
    /\ op' = "SpawnRenderable"

\* world.despawn(e).
DespawnRenderable ==
    /\ BeginFrame
    /\ \E e \in alive :
          /\ alive' = alive \ {e}
          /\ global' = [global EXCEPT ![e] = NoAffine]
          /\ model' = [model EXCEPT ![e] = NoModel]
          /\ sprite' = [sprite EXCEPT ![e] = NoSprite]
    /\ op' = "DespawnRenderable"
    /\ UNCHANGED spawned

\* world.insert_one(e, Model {..}) or a write through &mut Model.
InsertModel ==
    /\ BeginFrame
    /\ \E e \in alive, ms \in ModelVals :
          /\ model[e] # Model(ms)
          /\ model' = [model EXCEPT ![e] = Model(ms)]
    /\ op' = "InsertModel"
    /\ UNCHANGED <<spawned, alive, global, sprite>>

\* world.remove_one::<Model>(e).
RemoveModel ==
    /\ BeginFrame
    /\ \E e \in alive :
          /\ model[e].has
          /\ model' = [model EXCEPT ![e] = NoModel]
    /\ op' = "RemoveModel"
    /\ UNCHANGED <<spawned, alive, global, sprite>>

\* world.insert_one(e, Sprite {..}) or a write through &mut Sprite.
InsertSprite ==
    /\ BeginFrame
    /\ \E e \in alive, t \in TextureIds :
          /\ sprite[e] # Sprite(t)
          /\ sprite' = [sprite EXCEPT ![e] = Sprite(t)]
    /\ op' = "InsertSprite"
    /\ UNCHANGED <<spawned, alive, global, model>>

\* world.remove_one::<Sprite>(e).
RemoveSprite ==
    /\ BeginFrame
    /\ \E e \in alive :
          /\ sprite[e].has
          /\ sprite' = [sprite EXCEPT ![e] = NoSprite]
    /\ op' = "RemoveSprite"
    /\ UNCHANGED <<spawned, alive, global, model>>

\* world.insert_one(e, GlobalTransform::default()) on a renderable's entity.
ShowEntity ==
    /\ BeginFrame
    /\ \E e \in alive :
          /\ global[e] = NoAffine
          /\ global' = [global EXCEPT ![e] = IdentityAffine]
    /\ op' = "ShowEntity"
    /\ UNCHANGED <<spawned, alive, model, sprite>>

\* world.remove_one::<GlobalTransform>(e) on a renderable's entity.
HideEntity ==
    /\ BeginFrame
    /\ \E e \in alive :
          /\ global[e] # NoAffine
          /\ global' = [global EXCEPT ![e] = NoAffine]
    /\ op' = "HideEntity"
    /\ UNCHANGED <<spawned, alive, model, sprite>>

\* An update that leaves the world alone (game/src/lib.rs: Game::update).
KeepWorld ==
    /\ BeginFrame
    /\ op' = "KeepWorld"
    /\ UNCHANGED <<spawned, alive, global, model, sprite>>

\* The step after a pipeline's prep: the other pipeline, or the end of the loop.
AfterPrep(done) == IF done = {"model", "texture"} THEN "update" ELSE "prep"

\* pipeline.prep(..) of the ModelRenderer, wherever its priority puts it.
PrepModel ==
    /\ pc = "prep"
    /\ ~panicked
    /\ "model" \notin prepped
    /\ \E r \in {ModelPrep(model_instances, mesh_storage, texture_storage,
                           alive, global, model)} :
           /\ model_instances' = r.instances
           /\ mesh_storage' = r.mesh_storage
           /\ texture_storage' = r.texture_storage
           /\ panicked' = r.panicked
           /\ model_trace' = ModelTrace(model_instances, mesh_storage,
                                        texture_storage, r.calls)
    /\ prepped' = prepped \cup {"model"}
    /\ pc' = AfterPrep(prepped')
    /\ UNCHANGED <<spawned, alive, transform, global, local, frame, rootsLeft,
                   stack, pre, written, visits>>
    /\ UNCHANGED <<model, sprite, texture_instances, texture_trace, op>>
    /\ UNCHANGED frameVars
    /\ UNCHANGED <<inputVars, driverVars, runnerVars, loaderVars, menuVars>>

\* pipeline.prep(..) of the TextureRenderer, wherever its priority puts it.
PrepTexture ==
    /\ pc = "prep"
    /\ ~panicked
    /\ "texture" \notin prepped
    /\ \E r \in {TexturePrep(texture_instances, alive, global, sprite)} :
           /\ texture_instances' = r.instances
           /\ panicked' = r.panicked
           /\ texture_trace' = TextureTrace(texture_instances, r.calls)
    /\ prepped' = prepped \cup {"texture"}
    /\ pc' = AfterPrep(prepped')
    /\ UNCHANGED <<spawned, alive, transform, global, local, frame, rootsLeft,
                   stack, pre, written, visits>>
    /\ UNCHANGED <<model, sprite, mesh_storage, texture_storage, model_instances,
                   model_trace, op>>
    /\ UNCHANGED frameVars
    /\ UNCHANGED <<inputVars, driverVars, runnerVars, loaderVars, menuVars>>

NextBatch ==
    \/ SpawnRenderable
    \/ DespawnRenderable
    \/ InsertModel
    \/ RemoveModel
    \/ InsertSprite
    \/ RemoveSprite
    \/ ShowEntity
    \/ HideEntity
    \/ KeepWorld
    \/ PrepModel
    \/ PrepTexture

SpecBatch == InitSpatial /\ [][NextBatch]_vars

\* Both pipelines have run their prep and the application has not run since.
Prepared == pc = "update" /\ prepped = {"model", "texture"}

\* ------------------------------------------------- the frame loop, whole tick

\* One order in which a HashMap yields the members of S.
SomeOrder(S) == CHOOSE o \in Orders(S) : TRUE

\* cascade_transform_x run to its end for a stack of pending calls.
RECURSIVE CascadeAll(_, _, _)
CascadeAll(calls, loc, gl) ==
    IF calls = <<>>
       THEN gl
       ELSE LET current == Head(calls).current
                t == CascadeTransform(loc, current, Head(calls).transform)
            IN  CascadeAll(CallsFor(SomeOrder(HierarchyLinks(loc, current)), t)
                               \o Tail(calls),
                           loc, CascadeWrite(gl, current, t))

\* roots.into_iter().for_each(..) run to its end.
RECURSIVE VisitRoots(_, _, _)
VisitRoots(roots, loc, gl) ==
    IF roots = {}
       THEN gl
       ELSE LET root == CHOOSE r \in roots : TRUE
            IN  VisitRoots(roots \ {root}, loc,
                    IF RootTransform(gl, root) = NoAffine
                       THEN gl
                       ELSE CascadeAll(CallsFor(SomeOrder(HierarchyLinks(loc, root)),
                                                RootTransform(gl, root)),
                                       loc, gl))

\* process_transform_hierarchy as one step.
HierarchyPass(loc, gl) == VisitRoots(RootsOf(loc), loc, gl)

\* The step a loop over the pipelines goes to: itself while a pipeline is left.
LoopOrAfter(step, next, ps) == IF next \in DOMAIN ps THEN step ELSE StepAfter(step)

\* RendererAccessMut::add_renderer::<R>(priority), from App::new or from
\* App::update: a pipeline of a kind not registered yet.
AddPipeline ==
    /\ pc = "update"
    /\ ~panicked
    /\ \E kind \in PipelineKinds, priority \in Priorities :
          /\ \A i \in DOMAIN pipelines : pipelines[i].kind # kind
          /\ pipelines' = AddPipelineTo(pipelines, kind, priority)
    /\ UNCHANGED spatialVars
    /\ UNCHANGED batchVars
    /\ UNCHANGED <<camera, camera_wgpu, uniform, ui3d, ui_instances, ui_trace,
                   cursor, trace, draws, outcome>>
    /\ UNCHANGED <<inputVars, driverVars, runnerVars, loaderVars, menuVars>>

\* The RedrawRequested arm of window_event, from set_control_flow to the return
\* of App::update inside OuterState::tick: the wake-up is scheduled, the time
\* ticked, and update finds the inputs as the events since the last tick left
\* them.
TickBegins ==
    /\ pc = "update"
    /\ ~panicked
    /\ ~exited
    /\ state_is_some
    /\ pc' = StepAfter("update")
    /\ trace' = <<Step("update", "app")>>
    /\ draws' = NoDraws
    /\ outcome' = <<outcome[2], "running">>
    /\ cursor' = 0
    /\ ui_trace' = UiTrace(FALSE, ui_instances, global)
    /\ wake' = TRUE
    /\ redraw' = FALSE
    /\ event' = "RedrawRequested"
    /\ time' = TickTime(time, frame')
    /\ update_saw' = UpdateSaw(AppSeesTime(time', time), keys, mouse_buttons)
    /\ UNCHANGED <<rootsLeft, stack, pre, written, visits, panicked>>
    /\ UNCHANGED <<mesh_storage, texture_storage, model_instances,
                   texture_instances, model_trace, texture_trace, prepped>>
    /\ UNCHANGED <<ui_instances, pipelines>>
    /\ UNCHANGED <<inputVars, last_event, config, depth_texture, resized, exited>>
    /\ UNCHANGED <<runnerVars, loaderVars, menuVars>>

\* A tick of a run that is explored for MaxTicks ticks, with an update that
\* leaves every ParentLink alone.
BeginWholeTick ==
    /\ frame < MaxTicks
    /\ frame' = frame + 1
    /\ TickBegins
    /\ UNCHANGED local

\* A bundle the application spawns.
Bundle(tr, gl, mo, sp, cam, wgpu, ui) ==
    [transform |-> tr, global |-> gl, model |-> mo, sprite |-> sp,
     camera |-> cam, camera_wgpu |-> wgpu, ui3d |-> ui]

\* The bundles: a perspective camera from spawn_camera with and without a
\* GlobalTransform, an orthographic camera, a model of one mesh and a model of
\* two, a sprite, and a Ui3d menu away from the origin.
FrameBundles ==
    { Bundle(Translate(0, 1), IdentityAffine, NoModel, NoSprite, "perspective", TRUE, NoUi3d),
      Bundle(Translate(0, 1), NoAffine, NoModel, NoSprite, "perspective", TRUE, NoUi3d),
      Bundle(Translate(0, 1), IdentityAffine, NoModel, NoSprite, "orthographic", TRUE, NoUi3d),
      Bundle(NoTransform, IdentityAffine, Model(<<MeshTexture(0, 1)>>), NoSprite, "none", FALSE, NoUi3d),
      Bundle(NoTransform, IdentityAffine, Model(<<MeshTexture(0, 1), MeshTexture(1, 2)>>), NoSprite, "none", FALSE, NoUi3d),
      Bundle(NoTransform, IdentityAffine, NoModel, Sprite(1), "none", FALSE, NoUi3d),
      Bundle(NoTransform, ToAffine(Translate(1, 0)), NoModel, NoSprite, "none", FALSE, Ui3d(<<2, 1>>)) }

\* world.spawn(bundle).
FrameSpawn ==
    /\ BeginWholeTick
    /\ spawned < NumEntities
    /\ \E b \in FrameBundles :
          /\ spawned' = spawned + 1
          /\ alive' = alive \cup {spawned + 1}
          /\ transform' = [transform EXCEPT ![spawned + 1] = b.transform]
          /\ global' = [global EXCEPT ![spawned + 1] = b.global]
          /\ model' = [model EXCEPT ![spawned + 1] = b.model]
          /\ sprite' = [sprite EXCEPT ![spawned + 1] = b.sprite]
          /\ camera' = [camera EXCEPT ![spawned + 1] = b.camera]
          /\ camera_wgpu' = [camera_wgpu EXCEPT ![spawned + 1] = b.camera_wgpu]
          /\ ui3d' = [ui3d EXCEPT ![spawned + 1] = b.ui3d]
    /\ op' = "FrameSpawn"
    /\ UNCHANGED uniform

\* world.despawn(e): every component of e is dropped.
FrameDespawn ==
    /\ BeginWholeTick
    /\ \E e \in alive :
          /\ alive' = alive \ {e}
          /\ transform' = [transform EXCEPT ![e] = NoTransform]
          /\ global' = [global EXCEPT ![e] = NoAffine]
          /\ model' = [model EXCEPT ![e] = NoModel]
          /\ sprite' = [sprite EXCEPT ![e] = NoSprite]
          /\ camera' = [camera EXCEPT ![e] = "none"]
          /\ camera_wgpu' = [camera_wgpu EXCEPT ![e] = FALSE]
          /\ ui3d' = [ui3d EXCEPT ![e] = NoUi3d]
          /\ uniform' = [uniform EXCEPT ![e] = NoUniform]
    /\ op' = "FrameDespawn"
    /\ UNCHANGED spawned

\* world.remove_one::<Ui3d>(e).
FrameRemoveUi3d ==
    /\ BeginWholeTick
    /\ \E e \in alive :
          /\ ui3d[e].has
          /\ ui3d' = [ui3d EXCEPT ![e] = NoUi3d]
    /\ op' = "FrameRemoveUi3d"
    /\ UNCHANGED <<spawned, alive, transform, global, model, sprite, camera,
                   camera_wgpu, uniform>>

\* A write through &mut Model: the meshes vector of one of the bundles.
FrameSetModel ==
    /\ BeginWholeTick
    /\ \E e \in alive, b \in FrameBundles :
          /\ model[e].has
          /\ b.model.has
          /\ model[e] # b.model
          /\ model' = [model EXCEPT ![e] = b.model]
    /\ op' = "FrameSetModel"
    /\ UNCHANGED <<spawned, alive, transform, global, sprite, camera, camera_wgpu,
                   ui3d, uniform>>

\* world.remove_one::<GlobalTransform>(e).
FrameRemoveGlobal ==
    /\ BeginWholeTick
    /\ \E e \in alive :
          /\ global[e] # NoAffine
          /\ global' = [global EXCEPT ![e] = NoAffine]
    /\ op' = "FrameRemoveGlobal"
    /\ UNCHANGED <<spawned, alive, transform, model, sprite, camera, camera_wgpu,
                   ui3d, uniform>>

\* An update that leaves the world alone (game/src/lib.rs: Game::update).
FrameIdle ==
    /\ BeginWholeTick
    /\ op' = "FrameIdle"
    /\ UNCHANGED <<spawned, alive, transform, global, model, sprite, camera,
                   camera_wgpu, ui3d, uniform>>

\* What a step of the tick leaves alone unless it says otherwise.
TickKeeps ==
    /\ ~panicked
    /\ UNCHANGED <<spawned, alive, transform, local, frame, rootsLeft, stack, pre,
                   written, visits>>
    /\ UNCHANGED <<model, sprite, prepped, op>>
    /\ UNCHANGED <<camera, camera_wgpu, ui3d, pipelines>>
    /\ UNCHANGED <<driverVars, runnerVars, loaderVars, menuVars>>

\* spatial::process_global_transform(&mut self.state).
TickFlat ==
    /\ pc = "flat"
    /\ TickKeeps
    /\ UNCHANGED inputVars
    /\ global' = FlatPass(transform, global)
    /\ pc' = StepAfter("flat")
    /\ trace' = Append(trace, Step("flat", "spatial"))
    /\ UNCHANGED <<panicked, mesh_storage, texture_storage, model_instances,
                   texture_instances, model_trace, texture_trace, uniform,
                   ui_instances, ui_trace, cursor, draws, outcome>>

\* spatial::process_transform_hierarchy(&mut self.state).
TickHierarchy ==
    /\ pc = "hierarchy"
    /\ TickKeeps
    /\ UNCHANGED inputVars
    /\ global' = HierarchyPass(local, global)
    /\ pc' = StepAfter("hierarchy")
    /\ trace' = Append(trace, Step("hierarchy", "spatial"))
    /\ UNCHANGED <<panicked, mesh_storage, texture_storage, model_instances,
                   texture_instances, model_trace, texture_trace, uniform,
                   ui_instances, ui_trace, cursor, draws, outcome>>

\* RendererState::tick: both camera systems, then the prep loop begins.
TickCameraSync ==
    /\ pc = "camera_sync"
    /\ TickKeeps
    /\ UNCHANGED inputVars
    /\ uniform' = SyncCameras(alive, camera, camera_wgpu, transform, uniform)
    /\ cursor' = 1
    /\ pc' = LoopOrAfter(StepAfter("camera_sync"), 1, pipelines)
    /\ trace' = Append(trace, Step("camera_sync", "renderer"))
    /\ UNCHANGED <<global, panicked, mesh_storage, texture_storage,
                   model_instances, texture_instances, model_trace, texture_trace,
                   ui_instances, ui_trace, draws, outcome>>

\* The prep loop reaches a pipeline of this kind.
PrepAt(kind) ==
    /\ pc = "prep"
    /\ TickKeeps
    /\ UNCHANGED inputVars
    /\ cursor \in DOMAIN pipelines
    /\ pipelines[cursor].kind = kind
    /\ cursor' = cursor + 1
    /\ pc' = LoopOrAfter("prep", cursor + 1, pipelines)
    /\ trace' = Append(trace, Step("prep", kind))
    /\ UNCHANGED <<uniform, draws, outcome>>

\* pipeline.prep(..) of the ModelRenderer.
TickPrepModel ==
    /\ PrepAt("model")
    /\ \E r \in {ModelPrep(model_instances, mesh_storage, texture_storage,
                           alive, global, model)} :
           /\ model_instances' = r.instances
           /\ mesh_storage' = r.mesh_storage
           /\ texture_storage' = r.texture_storage
           /\ panicked' = r.panicked
           /\ model_trace' = ModelTrace(model_instances, mesh_storage,
                                        texture_storage, r.calls)
    /\ UNCHANGED <<global, texture_instances, texture_trace, ui_instances, ui_trace>>

\* pipeline.prep(..) of the TextureRenderer.
TickPrepTexture ==
    /\ PrepAt("texture")
    /\ \E r \in {TexturePrep(texture_instances, alive, global, sprite)} :
           /\ texture_instances' = r.instances
           /\ panicked' = r.panicked
           /\ texture_trace' = TextureTrace(texture_instances, r.calls)
    /\ UNCHANGED <<global, mesh_storage, texture_storage, model_instances,
                   model_trace, ui_instances, ui_trace>>

\* pipeline.prep(..) of the Ui3dRenderer: nothing without a camera, else every
\* Ui3d is turned to the camera the query yields first and its bundle prepared.
TickPrepUi3d ==
    /\ PrepAt("ui3d")
    /\ ui_trace' = UiTrace(TRUE, ui_instances, global)
    /\ IF UiCameras(alive, camera, global) = {}
          THEN UNCHANGED <<ui_instances, global>>
          ELSE \E c \in UiCameras(alive, camera, global) :
                  \E r \in {Ui3dPrep(ui_instances, alive, global, ui3d,
                                     global[c], frame)} :
                      /\ ui_instances' = r.instances
                      /\ global' = r.global
    /\ UNCHANGED <<panicked, mesh_storage, texture_storage, model_instances,
                   texture_instances, model_trace, texture_trace>>

\* get_current_texture() returns Ok: the encoder is created and the main render
\* pass begun, then the render loop begins.
TickAcquire ==
    /\ pc = "acquire"
    /\ TickKeeps
    /\ UNCHANGED inputVars
    /\ cursor' = 1
    /\ pc' = LoopOrAfter(AfterAcquire(TRUE), 1, pipelines)
    /\ trace' = trace \o <<Step("acquire", "ok"), Step("begin_pass", "renderer")>>
    /\ UNCHANGED <<global, panicked, mesh_storage, texture_storage,
                   model_instances, texture_instances, model_trace, texture_trace,
                   uniform, ui_instances, ui_trace, draws, outcome>>

\* get_current_texture() returns Err: a warning, and RendererState::tick returns.
TickSurfaceUnavailable ==
    /\ pc = "acquire"
    /\ TickKeeps
    /\ UNCHANGED inputVars
    /\ cursor' = 1
    /\ pc' = IF AfterAcquire(FALSE) = "render"
                THEN LoopOrAfter("render", 1, pipelines)
                ELSE AfterAcquire(FALSE)
    /\ trace' = Append(trace, Step("acquire", "err"))
    /\ outcome' = <<outcome[1], "abandoned">>
    /\ UNCHANGED <<global, panicked, mesh_storage, texture_storage,
                   model_instances, texture_instances, model_trace, texture_trace,
                   uniform, ui_instances, ui_trace, draws>>

\* The render loop reaches a pipeline of this kind.
RenderAt(kind) ==
    /\ pc = "render"
    /\ TickKeeps
    /\ UNCHANGED inputVars
    /\ cursor \in DOMAIN pipelines
    /\ pipelines[cursor].kind = kind
    /\ cursor' = cursor + 1
    /\ pc' = LoopOrAfter("render", cursor + 1, pipelines)
    /\ trace' = Append(trace, Step("render", kind))
    /\ UNCHANGED <<global, mesh_storage, texture_storage, model_instances,
                   texture_instances, model_trace, texture_trace, uniform,
                   ui_instances, ui_trace, outcome>>

\* pipeline.render(..) of the ModelRenderer: nothing without a camera, else the
\* meshes of instances in the order the HashMap yields them.
TickRenderModel ==
    /\ RenderAt("model")
    /\ IF RenderCameras(alive, camera, camera_wgpu) = {}
          THEN UNCHANGED <<draws, panicked>>
          ELSE \E order \in Orders(DOMAIN model_instances) :
                  \E r \in {DrawMeshes(order, model_instances, mesh_storage,
                                       texture_storage,
                                       [draws |-> draws.model, panicked |-> FALSE])} :
                      /\ draws' = [draws EXCEPT !.model = r.draws]
                      /\ panicked' = r.panicked

\* pipeline.render(..) of the TextureRenderer.
TickRenderTexture ==
    /\ RenderAt("texture")
    /\ draws' = IF RenderCameras(alive, camera, camera_wgpu) = {}
                   THEN draws
                   ELSE [draws EXCEPT !.texture = DrawSprites(texture_instances)]
    /\ UNCHANGED panicked

\* pipeline.render(..) of the Ui3dRenderer.
TickRenderUi3d ==
    /\ RenderAt("ui3d")
    /\ draws' = IF RenderCameras(alive, camera, camera_wgpu) = {}
                   THEN draws
                   ELSE [draws EXCEPT !.ui3d = DrawUis(ui_instances)]
    /\ UNCHANGED panicked

\* drop(render_pass), queue.submit(encoder.finish()), surface_texture.present().
TickSubmit ==
    /\ pc = "submit"
    /\ TickKeeps
    /\ UNCHANGED inputVars
    /\ pc' = StepAfter("submit")
    /\ trace' = trace \o <<Step("end_pass", "renderer"), Step("submit", "renderer"),
                            Step("present", "renderer")>>
    /\ outcome' = <<outcome[1], "presented">>
    /\ UNCHANGED <<global, panicked, mesh_storage, texture_storage,
                   model_instances, texture_instances, model_trace, texture_trace,
                   uniform, ui_instances, ui_trace, cursor, draws>>

\* tools::reset_input for the keys and the mouse buttons, reset_mouse_input:
\* OuterState::tick returns.
TickResetInput ==
    /\ pc = "reset_input"
    /\ TickKeeps
    /\ reset_saw' = ResetSaw(keys, mouse_buttons)
    /\ keys' = ResetInput(keys)
    /\ mouse_buttons' = ResetInput(mouse_buttons)
    /\ pc' = StepAfter("reset_input")
    /\ trace' = Append(trace, Step("reset_input", "engine"))
    /\ UNCHANGED <<global, panicked, mesh_storage, texture_storage,
                   model_instances, texture_instances, model_trace, texture_trace,
                   uniform, ui_instances, ui_trace, cursor, draws, outcome>>

\* A registration as App::new can make it: the ModelRenderer and the
\* TextureRenderer at one priority, the Ui3dRenderer after them.
RegisteredPipelines ==
    AddPipelineTo(AddPipelineTo(AddPipelineTo(<<>>, "ui3d", 1), "model", 0),
                  "texture", 0)

\* OuterState::new for an application that registers its pipelines in App::new.
InitFrame ==
    /\ InitEngine
    /\ pipelines = RegisteredPipelines

\* The steps of a tick after App::update.
TickSteps ==
    \/ TickFlat
    \/ TickHierarchy
    \/ TickCameraSync
    \/ TickPrepModel
    \/ TickPrepTexture
    \/ TickPrepUi3d
    \/ TickAcquire
    \/ TickSurfaceUnavailable
    \/ TickRenderModel
    \/ TickRenderTexture
    \/ TickRenderUi3d
    \/ TickSubmit
    \/ TickResetInput

NextFrame ==
    \/ FrameSpawn
    \/ FrameDespawn
    \/ FrameRemoveUi3d
    \/ FrameSetModel
    \/ FrameRemoveGlobal
    \/ FrameIdle
    \/ TickSteps

SpecFrame == InitFrame /\ [][NextFrame]_vars

NextPipelines ==
    \/ AddPipeline
    \/ FrameIdle
    \/ TickSteps

SpecPipelines == InitSpatial /\ [][NextPipelines]_vars

\* ------------------------------------------------------------------ a scene

\* A tick whose update may also write a ParentLink.
BeginSceneTick ==
    /\ frame < MaxTicks
    /\ frame' = frame + 1
    /\ TickBegins

\* The first App::update spawns a scene: a body with a Transform, a
\* GlobalTransform and a Model; a camera from spawn_camera with a Transform and
\* a GlobalTransform, attached to the body by a ParentLink; a Ui3d menu.
SceneSetup ==
    /\ BeginSceneTick
    /\ spawned = 0
    /\ \E kind \in CameraKinds :
          /\ camera' = [camera EXCEPT ![2] = kind]
          /\ camera_wgpu' = [camera_wgpu EXCEPT ![2] = TRUE]
    /\ spawned' = 3
    /\ alive' = {1, 2, 3}
    /\ transform' = [transform EXCEPT ![1] = Translate(0, 1), ![2] = Translate(0, 1)]
    /\ global' = [global EXCEPT ![1] = IdentityAffine, ![2] = IdentityAffine,
                                ![3] = ToAffine(Translate(1, 0))]
    /\ local' = [local EXCEPT ![2] = Link(1, Translate(1, 0))]
    /\ model' = [model EXCEPT ![1] = Model(<<MeshTexture(0, 1)>>)]
    /\ ui3d' = [ui3d EXCEPT ![3] = Ui3d(<<2, 1>>)]
    /\ op' = "SceneSetup"
    /\ UNCHANGED <<sprite, uniform>>

\* A write through &mut Transform.
SceneSetTransform ==
    /\ BeginSceneTick
    /\ \E e \in alive, t \in TransformVals :
          /\ transform[e] # NoTransform
          /\ transform[e] # t
          /\ transform' = [transform EXCEPT ![e] = t]
    /\ op' = "SceneSetTransform"
    /\ UNCHANGED <<spawned, alive, global, local, model, sprite, camera,
                   camera_wgpu, ui3d, uniform>>

\* world.insert_one(camera, LocalTransform {parent, transform}) with a body as
\* the parent, or world.remove_one::<LocalTransform>(camera).
SceneSetLink ==
    /\ BeginSceneTick
    /\ \E e \in alive :
          /\ camera[e] \in CameraKinds
          /\ \E link \in {NoLink} \cup
                         {Link(p, t) : p \in {b \in alive : model[b].has},
                                       t \in OffsetVals} :
                /\ local[e] # link
                /\ local' = [local EXCEPT ![e] = link]
    /\ op' = "SceneSetLink"
    /\ UNCHANGED <<spawned, alive, transform, global, model, sprite, camera,
                   camera_wgpu, ui3d, uniform>>

\* A write through &mut Model: another mesh and texture.
SceneSetModel ==
    /\ BeginSceneTick
    /\ \E e \in alive, meshes \in {<<MeshTexture(0, 1)>>, <<MeshTexture(1, 2)>>} :
          /\ model[e].has
          /\ model[e] # Model(meshes)
          /\ model' = [model EXCEPT ![e] = Model(meshes)]
    /\ op' = "SceneSetModel"
    /\ UNCHANGED <<spawned, alive, transform, global, local, sprite, camera,
                   camera_wgpu, ui3d, uniform>>

NextScene ==
    \/ SceneSetup
    \/ SceneSetTransform
    \/ SceneSetLink
    \/ SceneSetModel
    \/ FrameIdle
    \/ TickSteps

SpecScene == InitFrame /\ [][NextScene]_vars

\* ---------------------------------------------------------- the window events

\* OuterState::window_event is entered between two ticks, never inside one, and
\* no event arm touches the world, the pipelines or the time.
EventKeeps ==
    /\ pc = "update"
    /\ ~panicked
    /\ ~exited
    /\ state_is_some
    /\ UNCHANGED <<spatialVars, batchVars, frameVars>>
    /\ UNCHANGED <<time, update_saw, reset_saw>>
    /\ UNCHANGED <<runnerVars, loaderVars, menuVars>>

\* WindowEvent::KeyboardInput with a PhysicalKey::Code:
\* process_inputs(&mut state.keys, key, event.state.is_pressed()).
KeyboardInput ==
    /\ EventKeeps
    /\ \E key \in KeyCodes, is_pressed \in BOOLEAN :
          /\ keys' = ProcessInputs(keys, key, is_pressed)
          /\ last_event' = [last_event EXCEPT
                               ![key] = IF is_pressed THEN "press" ELSE "release"]
    /\ event' = "KeyboardInput"
    /\ UNCHANGED <<mouse_buttons, config, depth_texture, resized, wake, redraw,
                   exited>>

\* WindowEvent::MouseInput:
\* process_inputs(&mut state.mouse_buttons, button, state.is_pressed()).
MouseInput ==
    /\ EventKeeps
    /\ \E button \in MouseButtons, is_pressed \in BOOLEAN :
          /\ mouse_buttons' = ProcessInputs(mouse_buttons, button, is_pressed)
          /\ last_event' = [last_event EXCEPT
                               ![button] = IF is_pressed THEN "press" ELSE "release"]
    /\ event' = "MouseInput"
    /\ UNCHANGED <<keys, config, depth_texture, resized, wake, redraw, exited>>

\* WindowEvent::Resized(new_size): a size without area returns after the
\* warning; any other size goes to RendererState::resize, which configures the
\* surface and recreates the depth texture, and then to App::resize.
WindowResized ==
    /\ EventKeeps
    /\ \E new_size \in EventSizes :
          /\ resized' = Resized(new_size, config, depth_texture,
                                ResizeCalls(new_size))
          /\ IF ZeroArea(new_size)
                THEN UNCHANGED <<config, depth_texture>>
                ELSE /\ config' = RendererResize(config, depth_texture, new_size).config
                     /\ depth_texture' =
                           RendererResize(config, depth_texture, new_size).depth_texture
    /\ event' = "Resized"
    /\ UNCHANGED <<keys, mouse_buttons, last_event, wake, redraw, exited>>

NextInput ==
    \/ KeyboardInput
    \/ MouseInput
    \/ FrameIdle
    \/ TickSteps

SpecInput == InitFrame /\ [][NextInput]_vars

NextResize ==
    \/ WindowResized
    \/ FrameIdle
    \/ TickSteps

SpecResize == InitFrame /\ [][NextResize]_vars

\* ------------------------------------------------------------ the event loop

\* A tick of a run without end: frame counts the ticks up to MaxTicks and
\* stays there.
BeginLoopTick ==
    /\ frame' = IF frame < MaxTicks THEN frame + 1 ELSE frame
    /\ TickBegins
    /\ UNCHANGED local

\* The bundles of the loop: a perspective camera from spawn_camera and a model
\* of one mesh.
LoopBundles ==
    { Bundle(Translate(0, 1), IdentityAffine, NoModel, NoSprite, "perspective", TRUE, NoUi3d),
      Bundle(NoTransform, IdentityAffine, Model(<<MeshTexture(0, 1)>>), NoSprite, "none", FALSE, NoUi3d) }

\* RedrawRequested, with an update that spawns: world.spawn(bundle).
LoopSpawn ==
    /\ BeginLoopTick
    /\ spawned < NumEntities
    /\ \E b \in LoopBundles :
          /\ spawned' = spawned + 1
          /\ alive' = alive \cup {spawned + 1}
          /\ transform' = [transform EXCEPT ![spawned + 1] = b.transform]
          /\ global' = [global EXCEPT ![spawned + 1] = b.global]
          /\ model' = [model EXCEPT ![spawned + 1] = b.model]
          /\ camera' = [camera EXCEPT ![spawned + 1] = b.camera]
          /\ camera_wgpu' = [camera_wgpu EXCEPT ![spawned + 1] = b.camera_wgpu]
    /\ op' = "LoopSpawn"
    /\ UNCHANGED <<sprite, ui3d, uniform>>

\* RedrawRequested, with an update that despawns a model: world.despawn(e).
LoopDespawn ==
    /\ BeginLoopTick
    /\ \E e \in alive :
          /\ model[e].has
          /\ alive' = alive \ {e}
          /\ global' = [global EXCEPT ![e] = NoAffine]
          /\ model' = [model EXCEPT ![e] = NoModel]
    /\ op' = "LoopDespawn"
    /\ UNCHANGED <<spawned, transform, sprite, camera, camera_wgpu, ui3d, uniform>>

\* RedrawRequested, with an update that leaves the world alone.
LoopIdle ==
    /\ BeginLoopTick
    /\ op' = "LoopIdle"
    /\ UNCHANGED <<spawned, alive, transform, global, model, sprite, camera,
                   camera_wgpu, ui3d, uniform>>

\* WindowEvent::RedrawRequested, whatever the update does.
RedrawRequested ==
    \/ LoopSpawn
    \/ LoopDespawn
    \/ LoopIdle

\* Runner::new_events with StartCause::ResumeTimeReached: the wake-up that the
\* last RedrawRequested scheduled arrives, state.request_redraw().
ResumeTimeReached ==
    /\ EventKeeps
    /\ wake
    /\ wake' = FALSE
    /\ redraw' = TRUE
    /\ event' = "ResumeTimeReached"
    /\ UNCHANGED <<keys, mouse_buttons, last_event, config, depth_texture,
                   resized, exited>>

\* WindowEvent::CloseRequested: event_loop.exit().
CloseRequested ==
    /\ EventKeeps
    /\ exited' = TRUE
    /\ event' = "CloseRequested"
    /\ UNCHANGED <<keys, mouse_buttons, last_event, config, depth_texture,
                   resized, wake, redraw>>

NextLoop ==
    \/ LoopSpawn
    \/ LoopDespawn
    \/ LoopIdle
    \/ ResumeTimeReached
    \/ CloseRequested
    \/ TickSteps

SpecLoop == InitFrame /\ [][NextLoop]_vars

\* A step of OuterState::tick past App::update: each is recorded in trace, and
\* nothing else happens while a tick runs.
TickGoesOn == pc # "update" /\ trace' # trace

\* OuterState::tick is straight-line code: a tick that has begun runs on until
\* it returns or panics. This is the weak fairness of TickSteps, whose steps
\* are the TickGoesOn steps and which is enabled exactly when a tick is under
\* way and has not panicked.
TickRunsOn ==
    []<>(pc = "update" \/ panicked) \/ []<><<TickGoesOn>>_vars

\* The windowing collaborator delivers the wake-up that was scheduled and the
\* redraw that was requested, and a tick that has begun runs on.
SpecLoopFair ==
    /\ SpecLoop
    /\ WF_vars(ResumeTimeReached)
    /\ WF_vars(redraw /\ RedrawRequested)
    /\ TickRunsOn

\* The loop over a world the application leaves empty, with every event that
\* is not a redraw arriving between the ticks.
NextEvents ==
    \/ LoopIdle
    \/ ResumeTimeReached
    \/ CloseRequested
    \/ KeyboardInput
    \/ WindowResized
    \/ TickSteps

SpecEventsFair ==
    /\ InitFrame /\ [][NextEvents]_vars
    /\ WF_vars(ResumeTimeReached)
    /\ WF_vars(redraw /\ LoopIdle)
    /\ TickRunsOn

\* ------------------------------------------------------------- the runner

\* Runner::run: state: None, and the fields OuterState::new will give.
InitRunner ==
    /\ InitFields
    /\ InitMenu
    /\ pipelines = RegisteredPipelines
    /\ state_is_some = FALSE
    /\ states_created = 0

\* A faulty resumed: the state is created whether or not there is one.
ResumedCreatesAlways(some) ==
    TRUE

\* Runner::resumed: match self.state { Some(_) => warn, None => create }.
ResumedCreates(some) == ~some

\* ApplicationHandler::resumed. OuterState::new gives every field the value
\* it has while Runner::state is None.
Resumed ==
    /\ pc = "update"
    /\ ~panicked
    /\ ~exited
    /\ IF ResumedCreates(state_is_some)
          THEN /\ state_is_some' = TRUE
               /\ states_created' = states_created + 1
          ELSE UNCHANGED runnerVars
    /\ event' = "Resumed"
    /\ UNCHANGED <<spatialVars, batchVars, frameVars, inputVars, loaderVars,
                   menuVars>>
    /\ UNCHANGED <<time, update_saw, last_event, config, depth_texture, resized,
                   wake, redraw, exited>>

\* The events the handlers of Runner pass on only if let Some(state).
RunnerEvents ==
    {"KeyboardInput", "MouseInput", "Resized", "RedrawRequested",
     "CloseRequested", "DeviceEvent", "ResumeTimeReached"}

\* window_event, device_event or new_events while Runner::state is None: the
\* if let does not match and the handler returns.
EventWithoutState ==
    /\ ~state_is_some
    /\ \E kind \in RunnerEvents : event' = kind
    /\ UNCHANGED <<spatialVars, batchVars, frameVars, inputVars, runnerVars,
                   loaderVars, menuVars>>
    /\ UNCHANGED <<time, update_saw, last_event, config, depth_texture, resized,
                   wake, redraw, exited>>

NextRunner ==
    \/ Resumed
    \/ EventWithoutState
    \/ KeyboardInput
    \/ WindowResized
    \/ ResumeTimeReached
    \/ CloseRequested
    \/ LoopIdle
    \/ TickSteps

SpecRunner == InitRunner /\ [][NextRunner]_vars

\* ------------------------------------------------------- the mesh loader

\* Mesh::load_mesh, its first statement: CURRENT_MESH_ID.fetch_add(1, Relaxed).
LoadMeshFetchAdd ==
    /\ Len(mesh_handed) < MaxLoads
    /\ \E t \in MeshThreads :
          /\ mesh_loading[t] = NoMeshId
          /\ \E r \in {FetchAdd(current_mesh_id)} :
                /\ current_mesh_id' = r.new
                /\ mesh_loading' = [mesh_loading EXCEPT ![t] = r.old]
                /\ mesh_handed' = Append(mesh_handed, r.old)
    /\ UNCHANGED mesh_loaded
    /\ UNCHANGED <<spatialVars, batchVars, frameVars, inputVars, driverVars,
                   runnerVars, menuVars>>

\* Mesh::load_mesh, the buffers created and Self {id, ..} returned.
LoadMeshReturn ==
    /\ \E t \in MeshThreads :
          /\ mesh_loading[t] # NoMeshId
          /\ mesh_loaded' = Append(mesh_loaded, mesh_loading[t])
          /\ mesh_loading' = [mesh_loading EXCEPT ![t] = NoMeshId]
    /\ UNCHANGED <<current_mesh_id, mesh_handed>>
    /\ UNCHANGED <<spatialVars, batchVars, frameVars, inputVars, driverVars,
                   runnerVars, menuVars>>

NextLoader ==
    \/ LoadMeshFetchAdd
    \/ LoadMeshReturn

SpecLoader == InitFrame /\ [][NextLoader]_vars

---------------------------------------------------------------------------
\* The panel of a Ui3d: Ui3dRenderer::prep builds the background of every Ui3d
\* the application made; options and selected are public fields.

MaxOptions == 3
MaxLine == 2

\* Option lists of a few lines, and lists whose length is around the first
\* length that does not fit selected's width.
ShortOptions == UNION {[1..n -> 0..MaxLine] : n \in 0..MaxOptions}

LongOptions ==
    {[i \in 1..n |-> 1] : n \in (2 ^ SelectedBits - 1)..(2 ^ SelectedBits + 1)}

Menus ==
    {Ui3dMenu(o, sel) : o \in ShortOptions \cup LongOptions, sel \in 0..(2 ^ SelectedBits - 1)}

InitPanel ==
    /\ InitFields
    /\ pipelines = RegisteredPipelines
    /\ state_is_some = TRUE
    /\ states_created = 1
    /\ menu \in Menus
    /\ ui_raw = NoUiUniformRaw

\* "Build UI background" of Ui3dRenderer::prep for the Ui3d.
BuildUiBackground ==
    /\ ~ui_raw.written
    /\ ui_raw' = UiBackground(menu, ui_raw)
    /\ UNCHANGED menu
    /\ UNCHANGED <<spatialVars, batchVars, frameVars, inputVars, driverVars,
                   runnerVars, loaderVars>>

NextPanel == BuildUiBackground

SpecPanel == InitPanel /\ [][NextPanel]_vars


\* A tick has run to its end and the application has not run since.
TickDone == pc = "update" /\ frame > 0 /\ trace # <<>>

\* ------------------------------------------------- the ParentLink graph, read
\* from the components alone (child to parent), independently of the cascade

HasLink(e) == local[e] # NoLink

HasGlobal(e) == global[e] # NoAffine

\* Where the chain of parents of handle h ends: an entity without ParentLink, a
\* handle of no entity, or -1 when the chain runs into a cycle.
RECURSIVE ChainEnd(_, _)
ChainEnd(h, fuel) ==
    IF h \notin Entities \/ local[h] = NoLink THEN h
    ELSE IF fuel = 0 THEN -1
    ELSE ChainEnd(local[h].parent, fuel - 1)

ChainRoot(e) == ChainEnd(e, NumEntities)

\* e is on a ParentLink cycle or below one.
InCycleChain(e) == HasLink(e) /\ ChainRoot(e) = -1

HasCycle == \E e \in Entities : InCycleChain(e)

\* The handle n ParentLinks above h, or -1 when the chain ends before.
RECURSIVE Up(_, _)
Up(h, n) ==
    IF n = 0 THEN h
    ELSE IF h \notin Entities \/ local[h] = NoLink THEN -1
    ELSE Up(local[h].parent, n - 1)

\* e and everything under it.
Subtree(e) == {d \in Entities : \E n \in 0..NumEntities : Up(d, n) = e}

\* The pose the ParentLink graph asks for: the GlobalTransform of the root of the
\* chain composed with the offsets from the root down; NoAffine when the chain
\* has no root with a GlobalTransform.
RECURSIVE ComposedPose(_, _)
ComposedPose(h, fuel) ==
    IF h \notin Entities THEN NoAffine
    ELSE IF local[h] = NoLink THEN global[h]
    ELSE IF fuel = 0 THEN NoAffine
    ELSE LET up == ComposedPose(local[h].parent, fuel - 1)
         IN  IF up = NoAffine THEN NoAffine
             ELSE Mul(up, ToAffine(local[h].transform))

ExpectedPose(e) == ComposedPose(e, NumEntities)

\* ------------------------------------------------------------------ claims

\* C1: after one resolution pass, every entity with a ParentLink and a
\* GlobalTransform whose chain of parents ends at a root that has a
\* GlobalTransform holds the root's GlobalTransform composed with the offsets of
\* the chain from the root down, in that order, whatever the depth and whether or
\* not the entity has a Transform of its own.
C1_HierarchyComposition ==
    Resolved =>
        \A e \in Entities :
            (HasLink(e) /\ HasGlobal(e) /\ ExpectedPose(e) # NoAffine)
                => global[e] = ExpectedPose(e)

\* C1 witness: a chain root -> a -> b resolved, where the order of the offsets
\* shows in b's pose.
C1_Witness ==
    /\ Resolved
    /\ \E r, a, b \in alive :
          /\ ~HasLink(r) /\ HasGlobal(r)
          /\ HasLink(a) /\ local[a].parent = r /\ HasGlobal(a)
          /\ HasLink(b) /\ local[b].parent = a /\ HasGlobal(b)
          /\ global[a] = Mul(global[r], ToAffine(local[a].transform))
          /\ global[b] = Mul(global[a], ToAffine(local[b].transform))
          /\ global[b] # Mul(Mul(global[r], ToAffine(local[b].transform)),
                             ToAffine(local[a].transform))

\* C2: after one resolution pass, every entity with a Transform and a
\* GlobalTransform and no ParentLink holds the affine form of its Transform,
\* whatever it held before and whether or not it is a parent.
C2_FlatCorrectness ==
    Resolved =>
        \A e \in Entities :
            (transform[e] # NoTransform /\ HasGlobal(e) /\ ~HasLink(e))
                => global[e] = ToAffine(transform[e])

\* C2 witness: a parent with a Transform whose GlobalTransform held another value
\* before the pass, and whose child the hierarchy pass wrote.
C2_Witness ==
    /\ Resolved
    /\ \E e \in alive :
          /\ transform[e] = Scale2 /\ ~HasLink(e)
          /\ pre[e] # NoAffine /\ pre[e] # ToAffine(transform[e])
          /\ global[e] = ToAffine(transform[e])
          /\ \E c \in written : local[c].parent = e

\* C3 as claimed: an entity whose ParentLink names an entity that does not exist
\* keeps, through a full resolution pass, the GlobalTransform it had before the
\* pass, with or without a Transform of its own, and the pass does not panic.
C3_OrphanKeepsGlobal ==
    /\ ~panicked
    /\ Resolved =>
          \A e \in Entities :
              (HasLink(e) /\ local[e].parent \notin alive) => global[e] = pre[e]

\* C4 as claimed: after every resolution pass of an acyclic world, every entity
\* with a ParentLink and a GlobalTransform whose parent exists and has a
\* GlobalTransform holds the parent's GlobalTransform composed with its offset.
C4_NoStaleParentPose ==
    (Resolved /\ ~HasCycle) =>
        \A e \in Entities :
            (/\ HasLink(e) /\ HasGlobal(e)
             /\ local[e].parent \in alive
             /\ HasGlobal(local[e].parent))
                => global[e] = Mul(global[local[e].parent],
                                   ToAffine(local[e].transform))

\* C4 amended: the same, for the entities whose chain of parents ends at a root
\* that has a GlobalTransform.
C4_NoStaleParentPoseUnderRoot ==
    Resolved =>
        \A e \in Entities :
            (/\ HasLink(e) /\ HasGlobal(e)
             /\ local[e].parent \in alive
             /\ HasGlobal(local[e].parent)
             /\ ExpectedPose(e) # NoAffine)
                => global[e] = Mul(global[local[e].parent],
                                   ToAffine(local[e].transform))

\* C4 witness: a later frame in which the pass moved a child to follow a parent
\* whose own pose differs from the default one.
C4_Witness ==
    /\ Resolved
    /\ frame > 1
    /\ \E e \in alive :
          /\ HasLink(e) /\ HasGlobal(e) /\ ExpectedPose(e) # NoAffine
          /\ local[e].parent \in alive
          /\ global[local[e].parent] \notin {NoAffine, IdentityAffine}
          /\ pre[e] \notin {NoAffine, global[e]}
          /\ global[e] = Mul(global[local[e].parent], ToAffine(local[e].transform))

\* Whether the cascade wrote e or anything under it in this pass.
SubtreeWritten(e) == Subtree(e) \cap written # {}

\* C5 as claimed: when the direct parent of a ParentLink entity has no
\* GlobalTransform, be that parent a root or a mid-chain member, the hierarchy
\* pass writes neither that entity nor any of its descendants.
C5_ParentWithoutGlobalSkips ==
    Resolved =>
        \A e \in Entities :
            (/\ HasLink(e)
             /\ local[e].parent \in alive
             /\ ~HasGlobal(local[e].parent))
                => ~SubtreeWritten(e)

\* C5 amended: a root without GlobalTransform has its whole subtree skipped; a
\* mid-chain parent without GlobalTransform does not stop the cascade, which
\* writes the child exactly when the chain ends at a root with a GlobalTransform.
C5_RootWithoutGlobalSkips ==
    Resolved =>
        \A e \in Entities :
            (/\ HasLink(e)
             /\ local[e].parent \in alive
             /\ ~HasGlobal(local[e].parent))
                => IF HasLink(local[e].parent)
                      THEN HasGlobal(e) =>
                              (e \in written <=> ExpectedPose(e) # NoAffine)
                      ELSE ~SubtreeWritten(e)

\* C5 witness: an existing root without GlobalTransform, its child and its
\* grandchild, both with a GlobalTransform, none of them written.
C5_Witness ==
    /\ Resolved
    /\ written = {}
    /\ \E r, a, b \in alive :
          /\ ~HasLink(r) /\ ~HasGlobal(r)
          /\ HasLink(a) /\ local[a].parent = r /\ HasGlobal(a)
          /\ HasLink(b) /\ local[b].parent = a /\ HasGlobal(b)

\* C6: a root that does not exist or has no GlobalTransform has only its own
\* subtree skipped: under every root that has a GlobalTransform the pass still
\* writes every member that has one; and the pass never panics.
C6_SkippingIsLocal ==
    /\ ~panicked
    /\ Resolved =>
          \A r \in RootsOf(local) :
              IF GlobalOf(global, r) = NoAffine
                 THEN \A d \in Entities : ChainRoot(d) = r => d \notin written
                 ELSE \A d \in Entities :
                         (HasLink(d) /\ ChainRoot(d) = r /\ HasGlobal(d))
                             => d \in written

\* C6 witness: one pass that skipped the child of a missing root and wrote the
\* child of another root.
C6_Witness ==
    /\ Resolved
    /\ \E c, d \in alive :
          /\ HasLink(c) /\ HasGlobal(c) /\ c \notin written
          /\ local[c].parent \notin alive
          /\ HasLink(d) /\ d \in written
          /\ local[d].parent \in alive /\ ~HasLink(local[d].parent)

\* C7 as claimed: on a world whose ParentLinks form a cycle the hierarchy pass
\* does not terminate, so no resolution pass over such a world is ever finished.
C7_CycleNeverReturns == Resolved => ~HasCycle

\* C7 amended: a cycle is not detected, and the cascade never reaches it: no
\* entity on a cycle or below one is called, queued or written, and the pass ends
\* after calling the cascade at most once on every other entity.
C7_CycleIsSkipped ==
    /\ \A e \in Entities :
          /\ visits[e] <= 1
          /\ InCycleChain(e) =>
                /\ visits[e] = 0
                /\ e \notin written
                /\ \A i \in DOMAIN stack : stack[i].current # e
                /\ Resolved => global[e] = FlatPass(transform, pre)[e]
    /\ Len(stack) <= NumEntities

\* C7 witness: a finished pass over a world with a two-entity cycle, both with
\* a GlobalTransform.
C7_Witness ==
    /\ Resolved
    /\ \E a, b \in alive :
          /\ a # b
          /\ local[a].parent = b /\ local[b].parent = a
          /\ HasGlobal(a) /\ HasGlobal(b)

\* ------------------------------------------------ claims: Instance Batcher

\* The batch keys of the entities that now have a GlobalTransform and a Model.
NowModel ==
    {k \in ModelKeys :
        \E e \in alive :
            /\ global[e] # NoAffine
            /\ model[e].has
            /\ \E i \in DOMAIN model[e].meshes :
                  k = <<model[e].meshes[i].mesh, model[e].meshes[i].texture>>}

\* The batch keys of the entities that now have a GlobalTransform and a Sprite.
NowSprite ==
    {t \in TextureIds :
        \E e \in alive : global[e] # NoAffine /\ sprite[e].has /\ sprite[e].texture = t}

\* The keys that held a buffer when the last prep of each pipeline began.
PrevModel == KeysOf(model_trace.before)

PrevSprite == DOMAIN texture_trace.before

\* The calls the lifecycle asks for: one create for a new key, one update for a
\* key that stays, one remove for a key that went, and nothing else.
LifecycleCalls(k, prev, now) ==
    [created |-> IF k \in now \ prev THEN 1 ELSE 0,
     updated |-> IF k \in now \cap prev THEN 1 ELSE 0,
     removed |-> IF k \in prev \ now THEN 1 ELSE 0]

\* C8: in every prep of ModelRenderer (key = mesh id x texture id) and of
\* TextureRenderer (key = texture id), with Prev the keys that held a buffer
\* before and Now the keys of the entities that have GlobalTransform and the
\* renderable, a buffer is created exactly for Now \ Prev, update is called
\* exactly once (and create never) for Now \cap Prev, the buffer is removed
\* exactly for Prev \ Now, no key is both created and removed, and no unwrap
\* fails.
C8_BufferLifecycle ==
    Prepared =>
        /\ ~panicked
        /\ \A k \in ModelKeys :
              /\ model_trace.calls[k] = LifecycleCalls(k, PrevModel, NowModel)
              /\ ~(model_trace.calls[k].created > 0 /\ model_trace.calls[k].removed > 0)
        /\ \A t \in TextureIds :
              /\ texture_trace.calls[t] = LifecycleCalls(t, PrevSprite, NowSprite)
              /\ ~(texture_trace.calls[t].created > 0 /\ texture_trace.calls[t].removed > 0)

\* One prep of ModelRenderer created a buffer, updated another and removed a
\* third, and the prep of TextureRenderer in the same frame updated one.
C8_Witness ==
    /\ Prepared
    /\ \E a, b, c \in ModelKeys :
          /\ a \in NowModel \ PrevModel /\ model_trace.calls[a].created = 1
          /\ b \in NowModel \cap PrevModel /\ model_trace.calls[b].updated = 1
          /\ c \in PrevModel \ NowModel /\ model_trace.calls[c].removed = 1
    /\ \E t \in NowSprite \cap PrevSprite : texture_trace.calls[t].updated = 1

\* C9: a prep that follows another with no change to the world in between
\* creates no buffer and removes none, and leaves the keys of instances (both
\* levels for ModelRenderer) and the mesh and texture storages as the first
\* prep left them.
C9_SecondPrepIsIdle ==
    (Prepared /\ op = "KeepWorld" /\ frame > 1) =>
        /\ \A k \in ModelKeys :
              model_trace.calls[k].created = 0 /\ model_trace.calls[k].removed = 0
        /\ \A t \in TextureIds :
              texture_trace.calls[t].created = 0 /\ texture_trace.calls[t].removed = 0
        /\ KeysOf(model_instances) = KeysOf(model_trace.before)
        /\ DOMAIN model_instances = DOMAIN model_trace.before
        /\ DOMAIN texture_instances = DOMAIN texture_trace.before
        /\ mesh_storage = model_trace.mesh_storage
        /\ texture_storage = model_trace.texture_storage
        /\ \A t \in DOMAIN texture_instances :
              texture_instances[t].texture = texture_trace.before[t].texture

\* A second prep over an unchanged world in which both pipelines hold buffers
\* and update them.
C9_Witness ==
    /\ Prepared
    /\ op = "KeepWorld"
    /\ frame > 1
    /\ \E k \in KeysOf(model_instances) : model_trace.calls[k].updated = 1
    /\ \E t \in DOMAIN texture_instances : texture_trace.calls[t].updated = 1
    /\ mesh_storage # {}
    /\ texture_storage # {}

\* The meshes and the textures the models of this frame refer to.
MeshesNow == {k[1] : k \in NowModel}

TexturesNow == {k[2] : k \in NowModel}

\* C10: a key that held a buffer and is referenced by no entity any more (the
\* last one was despawned or lost its renderable or its GlobalTransform) has no
\* buffer after the next prep of its pipeline; a mesh or texture that only this
\* key referenced is absent from mesh_storage / texture_storage, and
\* TextureRenderer holds the texture of the key in no buffer.
C10_Eviction ==
    Prepared =>
        /\ \A k \in PrevModel \ NowModel :
              /\ k \notin KeysOf(model_instances)
              /\ k[1] \notin MeshesNow => k[1] \notin mesh_storage
              /\ k[2] \notin TexturesNow => k[2] \notin texture_storage
        /\ \A t \in PrevSprite \ NowSprite :
              /\ t \notin DOMAIN texture_instances
              /\ \A u \in DOMAIN texture_instances : texture_instances[u].texture # t

\* The last entity of a model key went away while another model key stayed: the
\* mesh and the texture only the lost key used were stored before this prep.
C10_Witness ==
    /\ Prepared
    /\ op \in {"DespawnRenderable", "RemoveModel", "HideEntity"}
    /\ \E k \in PrevModel \ NowModel :
          /\ k[1] \in model_trace.mesh_storage \ MeshesNow
          /\ k[2] \in model_trace.texture_storage \ TexturesNow
          /\ NowModel # {}

\* The (entity, entry of Model::meshes) occurrences whose batch key is k.
ModelOccurrences(k) ==
    UNION {{<<e, i>> : i \in {j \in DOMAIN model[e].meshes :
                                 k = <<model[e].meshes[j].mesh,
                                       model[e].meshes[j].texture>>}} :
           e \in {x \in alive : global[x] # NoAffine /\ model[x].has}}

\* The entities whose sprite has the batch key t.
SpriteOccurrences(t) ==
    {e \in alive : global[e] # NoAffine /\ sprite[e].has /\ sprite[e].texture = t}

\* C11: after prep the keys that hold an instance buffer are exactly the batch
\* keys of the entities that have a GlobalTransform and the renderable, and the
\* buffer of each key holds as many records as there are (entity, entry)
\* occurrences of that key: N sprites on one texture give it N records.
C11_BatchContents ==
    Prepared =>
        /\ KeysOf(model_instances) = NowModel
        /\ \A k \in KeysOf(model_instances) :
              model_instances[k[1]][k[2]] = Cardinality(ModelOccurrences(k))
        /\ DOMAIN texture_instances = NowSprite
        /\ \A t \in DOMAIN texture_instances :
              /\ texture_instances[t].buffer = Cardinality(SpriteOccurrences(t))
              /\ texture_instances[t].texture = t

\* Three sprites, two on one texture and one on another, give two buffers of
\* two records and of one record.
C11_Witness ==
    /\ Prepared
    /\ Cardinality({e \in alive : sprite[e].has /\ global[e] # NoAffine}) = 3
    /\ \E t, u \in TextureIds :
          /\ t # u
          /\ DOMAIN texture_instances = {t, u}
          /\ texture_instances[t].buffer = 2
          /\ texture_instances[u].buffer = 1

\* C13: after every ModelRenderer::prep the keys of mesh_storage are exactly
\* the mesh ids, and the keys of texture_storage exactly the texture ids, that
\* the models of entities with a GlobalTransform refer to in this frame: a
\* resource in use is never pruned and one out of use is never retained.
C13_StoragePruned ==
    Prepared =>
        /\ mesh_storage = MeshesNow
        /\ texture_storage = TexturesNow

\* A prep that kept a mesh and a texture in use from the frame before and
\* pruned another that went out of use.
C13_Witness ==
    /\ Prepared
    /\ mesh_storage \cap model_trace.mesh_storage # {}
    /\ texture_storage \cap model_trace.texture_storage # {}
    /\ model_trace.texture_storage \ texture_storage # {}
    /\ mesh_storage = MeshesNow

\* ------------------------------------------- claims: the passes as a whole

\* C28: in one call of process_transform_hierarchy the cascade is called at
\* most once on every entity, and only on entities with a ParentLink, each of
\* which is in the child list of exactly one parent; and the GlobalTransforms
\* the pass leaves are those one fixed order of roots and siblings leaves,
\* whatever order the pass took.
C28_OnceAndOrderIndependent ==
    /\ \A e \in Entities :
          /\ visits[e] <= 1
          /\ visits[e] = 1 => HasLink(e)
    /\ \A e \in HierarchyEntries(local) :
          Cardinality({p \in LinkKeys(local) : e \in HierarchyLinks(local, p)}) = 1
    /\ Resolved => global = HierarchyPass(local, FlatPass(transform, pre))

\* A pass wrote two siblings with different offsets under one root.
C28_Witness ==
    /\ Resolved
    /\ \E p \in Entities, a, b \in written :
          /\ a # b
          /\ local[a].parent = p
          /\ local[b].parent = p
          /\ local[a].transform # local[b].transform
          /\ visits[a] = 1
          /\ visits[b] = 1
          /\ global[a] # global[b]

\* What a step taken inside process_transform_hierarchy may change.
HierarchyStepEffect ==
    pc \in {"hierarchy", "roots"} =>
        /\ transform' = transform
        /\ local' = local
        /\ alive' = alive
        /\ spawned' = spawned
        /\ \A e \in Entities :
              /\ global'[e] # global[e] => HasLink(e)
              /\ (global'[e] = NoAffine) <=> (global[e] = NoAffine)

\* C29: every step of process_transform_hierarchy leaves every Transform and
\* every ParentLink as it is, spawns and despawns nothing, gives no entity a
\* GlobalTransform and takes none away, and changes the GlobalTransform only
\* of entities that carry a ParentLink.
C29_HierarchyFrameEffect == [][HierarchyStepEffect]_vars

\* A pass changed the GlobalTransform of a child and left that of its root,
\* while a child without GlobalTransform was called as well.
C29_Witness ==
    /\ Resolved
    /\ \E e \in written :
          /\ global[e] # pre[e]
          /\ local[e].parent \in Entities
          /\ global[local[e].parent] = pre[local[e].parent]
    /\ \E e \in Entities : visits[e] = 1 /\ ~HasGlobal(e)

\* ------------------------------------------------------- claims: whole tick

\* Whether a step is in the trace of the current tick.
InTrace(s) == \E i \in DOMAIN trace : trace[i] = s

\* The positions of the steps of one name in the trace.
StepsOf(name) == {i \in DOMAIN trace : trace[i].step = name}

IsPrepStep(s) == s.step = "prep"

IsRenderStep(s) == s.step = "render"

\* The kinds of the pipelines in the order given.
KindsOf(ps) == [i \in DOMAIN ps |-> ps[i].kind]

\* Whether s is the beginning of t.
IsPrefix(s, t) == Len(s) <= Len(t) /\ s = SubSeq(t, 1, Len(s))

\* An entity has both a PerspectiveCamera and a CameraWgpu.
ActiveCamera == \E e \in alive : camera[e] = "perspective" /\ camera_wgpu[e]

\* C12: when a perspective camera with a CameraWgpu exists, a render of
\* ModelRenderer or of TextureRenderer issues exactly one indexed draw call for
\* every key that holds an instance buffer, with the instance range 0..count of
\* that buffer, and none for a key without a buffer.
C12_DrawSubmission ==
    ActiveCamera =>
        /\ InTrace(Step("render", "model")) =>
              \A k \in ModelKeys :
                  draws.model[k] = IF k \in KeysOf(model_instances)
                                      THEN <<model_instances[k[1]][k[2]]>>
                                      ELSE <<>>
        /\ InTrace(Step("render", "texture")) =>
              \A t \in TextureIds :
                  draws.texture[t] = IF t \in DOMAIN texture_instances
                                        THEN <<texture_instances[t].buffer>>
                                        ELSE <<>>

\* C14: pipelines is sorted by priority, pipelines of one priority stay in the
\* order of their add_pipeline calls, and while a tick runs its prep steps and
\* its render steps visit the pipelines in exactly this order.
C14_PipelineOrder ==
    /\ \A i, j \in DOMAIN pipelines :
          i < j =>
              /\ pipelines[i].priority <= pipelines[j].priority
              /\ pipelines[i].priority = pipelines[j].priority =>
                    pipelines[i].registered < pipelines[j].registered
    /\ pc # "update" =>
          /\ IsPrefix(KindsOf(SelectSeq(trace, IsPrepStep)), KindsOf(pipelines))
          /\ IsPrefix(KindsOf(SelectSeq(trace, IsRenderStep)), KindsOf(pipelines))
    /\ pc \in {"acquire", "submit", "reset_input"} =>
          KindsOf(SelectSeq(trace, IsPrepStep)) = KindsOf(pipelines)
    /\ pc = "reset_input" /\ InTrace(Step("present", "renderer")) =>
          KindsOf(SelectSeq(trace, IsRenderStep)) = KindsOf(pipelines)

\* Three pipelines, two of one priority registered before one of a lower
\* priority, have been prepared and rendered in a tick that presented.
C14_Witness ==
    /\ pc = "reset_input"
    /\ InTrace(Step("present", "renderer"))
    /\ Len(pipelines) = 3
    /\ pipelines[1].registered = 3
    /\ pipelines[2].priority = pipelines[3].priority
    /\ Len(SelectSeq(trace, IsRenderStep)) = 3

\* The place of a step in the order of phases the claim gives.
PhaseOf(name) ==
    CASE name = "update" -> 0
      [] name = "flat" -> 1
      [] name = "hierarchy" -> 2
      [] name = "camera_sync" -> 3
      [] name = "prep" -> 4
      [] name = "acquire" -> 5
      [] name = "begin_pass" -> 6
      [] name = "render" -> 7
      [] name = "end_pass" -> 8
      [] name = "submit" -> 9
      [] name = "present" -> 10
      [] OTHER -> 11

\* C15: in every tick the flat pass comes before the hierarchy pass, both come
\* before the camera sync and before every prep, every prep comes before the
\* surface is acquired and before every render, the tick begins with
\* App::update, and no tick starts before the one before it presented or was
\* abandoned. The steps of a tick never go back to an earlier phase, only prep
\* and render repeat, and no prep runs unless both passes and the camera sync
\* ran, no acquisition unless every pipeline was prepared.
C15_PhaseOrder ==
    /\ trace # <<>> => trace[1] = Step("update", "app")
    /\ \A i \in 1..(Len(trace) - 1) :
          \/ PhaseOf(trace[i].step) < PhaseOf(trace[i + 1].step)
          \/ /\ trace[i].step = trace[i + 1].step
             /\ trace[i].step \in {"prep", "render"}
    /\ (trace # <<>> /\ PhaseOf(trace[Len(trace)].step) \in 4..10) =>
          /\ InTrace(Step("flat", "spatial"))
          /\ InTrace(Step("hierarchy", "spatial"))
          /\ InTrace(Step("camera_sync", "renderer"))
    /\ (trace # <<>> /\ PhaseOf(trace[Len(trace)].step) \in 5..10) =>
          Len(SelectSeq(trace, IsPrepStep)) = Len(pipelines)
    /\ frame > 1 /\ trace # <<>> => outcome[1] \in {"presented", "abandoned"}

\* A second tick, after one that was abandoned, ran every phase and presented.
C15_Witness ==
    /\ TickDone
    /\ frame > 1
    /\ outcome = <<"abandoned", "presented">>
    /\ Cardinality(StepsOf("prep")) = 3
    /\ Cardinality(StepsOf("render")) = 3
    /\ alive # {}

C17_RenderPassCompletes ==
    InTrace(Step("acquire", "ok")) =>
        /\ ~panicked
        /\ Cardinality(StepsOf("begin_pass")) = 1
        /\ TickDone =>
              /\ KindsOf(SelectSeq(trace, IsRenderStep)) = KindsOf(pipelines)
              /\ InTrace(Step("submit", "renderer"))
              /\ InTrace(Step("present", "renderer"))
              /\ outcome[2] = "presented"

\* C18: when no entity has both a PerspectiveCamera and a CameraWgpu, the render
\* of each pipeline draws nothing and does not panic, every pipeline's render
\* is still invoked, and the frame is submitted and presented.
C18_NoCameraIsNotFatal ==
    (~ActiveCamera /\ trace # <<>>) =>
        /\ draws = NoDraws
        /\ ~panicked
        /\ (TickDone /\ InTrace(Step("acquire", "ok"))) =>
              /\ KindsOf(SelectSeq(trace, IsRenderStep)) = KindsOf(pipelines)
              /\ InTrace(Step("submit", "renderer"))
              /\ InTrace(Step("present", "renderer"))

\* A tick presented over a world that has only an orthographic camera, a sprite
\* buffer and a mesh of instances that was pruned from mesh_storage.
C18_Witness ==
    /\ TickDone
    /\ ~ActiveCamera
    /\ \E e \in alive : camera[e] = "orthographic" /\ camera_wgpu[e]
    /\ InTrace(Step("present", "renderer"))
    /\ DOMAIN texture_instances # {}
    /\ DOMAIN model_instances \ mesh_storage # {}

\* The entities that have a Ui3d and a GlobalTransform.
UiEntities == {e \in alive : ui3d[e].has /\ global[e] # NoAffine}

\* An entity has both a PerspectiveCamera and a GlobalTransform when the prep of
\* Ui3dRenderer begins.
UiCameraAtPrep ==
    \E e \in alive : camera[e] = "perspective" /\ ui_trace.global[e] # NoAffine

\* C19: after every prep of Ui3dRenderer, whatever cameras exist, a bundle an
\* entity already had is the same bundle and no entity without a Ui3d has a
\* bundle; a prep that reaches the entities gives every entity with
\* (Ui3d, GlobalTransform) a bundle; and a render draws no bundle of an entity
\* without a Ui3d.
C19_UiBundleLifecycle ==
    /\ ui_trace.ran =>
          /\ UiCameraAtPrep => UiEntities \subseteq DOMAIN ui_instances
          /\ \A e \in DOMAIN ui_instances : e \in alive /\ ui3d[e].has
          /\ \A e \in DOMAIN ui_instances \cap DOMAIN ui_trace.before :
                ui_instances[e].born = ui_trace.before[e].born
    /\ \A e \in Entities : draws.ui3d[e] # <<>> => (e \in alive /\ ui3d[e].has)

\* C20: a prep of Ui3dRenderer that finds no entity with both a
\* PerspectiveCamera and a GlobalTransform changes nothing: instances and every
\* GlobalTransform are after it what they were before it.
C20_UiPrepSkipped ==
    (ui_trace.ran /\ ~UiCameraAtPrep) =>
        /\ ui_instances = ui_trace.before
        /\ global = ui_trace.global

\* A prep without such a camera, in a world with a perspective camera that has
\* no GlobalTransform, a bundle in instances and a Ui3d that faces nothing yet.
C20_Witness ==
    /\ ui_trace.ran
    /\ ~UiCameraAtPrep
    /\ \E e \in alive : camera[e] = "perspective"
    /\ DOMAIN ui_instances # {}
    /\ \E e \in UiEntities : e \notin DOMAIN ui_instances

\* What a step past the two spatial passes may do to the GlobalTransforms.
OnlyResolverWrites ==
    pc \notin {"update", "flat", "hierarchy"} => global' = global

\* C21: within a tick only App::update and the two spatial passes change a
\* GlobalTransform: the camera sync, every prep, every render and the rest of
\* the tick leave every GlobalTransform as the resolver left it.
C21_SingleWriter == [][OnlyResolverWrites]_vars

\* C26: once the prep of ModelRenderer has run in a tick, every mesh id that
\* is a key of instances is in mesh_storage and every texture id under it is
\* in texture_storage, and no unwrap of render fails.
C26_RenderSafety ==
    /\ ~panicked
    /\ InTrace(Step("prep", "model")) =>
          \A m \in DOMAIN model_instances :
              /\ m \in mesh_storage
              /\ \A t \in DOMAIN model_instances[m] : t \in texture_storage


\* ------------------------------------------------- claims: inputs and resize

\* The three sets of an input hold nothing about val.
Untouched(input, val) ==
    /\ val \notin input.pressed
    /\ val \notin input.just_pressed
    /\ val \notin input.released

\* The input a key or a button is kept in.
InputOf(val) == IF val \in KeyCodes THEN keys ELSE mouse_buttons

\* C30: a key or a button is in pressed exactly when the last event processed
\* for it was a press, whatever ticks and resets came since; a press puts it in
\* just_pressed and a release in released until the reset of the next tick, a
\* release of a key that was not pressed included, which leaves pressed as it
\* was; the reset of a tick leaves pressed as it found it.
C30_PressedTracksLastEvent ==
    /\ \A val \in KeyCodes \cup MouseButtons :
          /\ val \in InputOf(val).pressed <=> last_event[val] = "press"
          /\ last_event[val] = "none" => Untouched(InputOf(val), val)
          /\ val \in InputOf(val).just_pressed => last_event[val] # "none"
          /\ val \in InputOf(val).released => last_event[val] # "none"
    /\ event = "KeyboardInput" =>
          \E key \in KeyCodes :
             \/ last_event[key] = "press" /\ key \in keys.just_pressed
             \/ last_event[key] = "release" /\ key \in keys.released
    /\ event = "MouseInput" =>
          \E button \in MouseButtons :
             \/ last_event[button] = "press" /\ button \in mouse_buttons.just_pressed
             \/ last_event[button] = "release" /\ button \in mouse_buttons.released
    /\ InTrace(Step("reset_input", "engine")) /\ event = "RedrawRequested" =>
          /\ keys.pressed = reset_saw.keys.pressed
          /\ mouse_buttons.pressed = reset_saw.mouse_buttons.pressed

\* A key held over a finished tick, its press no longer reported, while the
\* mouse button, never pressed, was released after that tick.
C30_Witness ==
    /\ TickDone
    /\ event = "MouseInput"
    /\ \E held \in KeyCodes, idle \in MouseButtons :
          /\ held \in keys.pressed
          /\ held \in update_saw.keys.just_pressed
          /\ held \notin keys.just_pressed
          /\ idle \in mouse_buttons.released
          /\ idle \notin mouse_buttons.pressed
          /\ idle \notin mouse_buttons.just_pressed
          /\ idle \notin update_saw.mouse_buttons.pressed

\* C23: when a tick has returned, just_pressed and released are empty for the
\* keys and for the mouse buttons and pressed is what it was before the reset,
\* after a presented frame and after an abandoned one alike; the reset is the
\* last step of the tick, after the renderer's tick, and App::update of that
\* tick found the inputs as the events had left them.
C23_InputResetAtFrameEnd ==
    /\ TickDone /\ event = "RedrawRequested" =>
          /\ outcome[2] \in {"presented", "abandoned"}
          /\ keys.just_pressed = {}
          /\ keys.released = {}
          /\ mouse_buttons.just_pressed = {}
          /\ mouse_buttons.released = {}
          /\ keys.pressed = reset_saw.keys.pressed
          /\ mouse_buttons.pressed = reset_saw.mouse_buttons.pressed
          /\ reset_saw = ResetSaw(update_saw.keys, update_saw.mouse_buttons)
    /\ trace # <<>> /\ ~InTrace(Step("reset_input", "engine")) =>
          /\ keys = update_saw.keys
          /\ mouse_buttons = update_saw.mouse_buttons
    /\ InTrace(Step("reset_input", "engine")) =>
          /\ trace[Len(trace)] = Step("reset_input", "engine")
          /\ Cardinality(StepsOf("reset_input")) = 1
          /\ \/ trace[Len(trace) - 1] = Step("present", "renderer")
             \/ trace[Len(trace) - 1] = Step("acquire", "err")

\* Two ticks returned, the one before the last abandoned and the last
\* presented, and the last reset emptied a press and a release that its update
\* had found, with a key and a button still held.
C23_Witness ==
    /\ TickDone
    /\ event = "RedrawRequested"
    /\ outcome = <<"abandoned", "presented">>
    /\ update_saw.keys.just_pressed # {}
    /\ update_saw.keys.released # {}
    /\ update_saw.mouse_buttons.just_pressed # {}
    /\ keys.pressed # {}
    /\ mouse_buttons.pressed # {}
    /\ keys.just_pressed = {}

\* C25: a Resized event whose width or height is 0 leaves the surface
\* configuration and the depth texture as they were and calls neither
\* RendererState::resize nor App::resize; any other Resized event resizes the
\* renderer first, surface and depth texture to the size of the event, and then
\* calls App::resize with that same size. Nothing else resizes either.
C25_ZeroAreaResizeSkipped ==
    /\ resized.size.width = 0 \/ resized.size.height = 0 =>
          /\ resized.calls = <<>>
          /\ config = resized.config
          /\ depth_texture = resized.depth_texture
    /\ resized.size.width # 0 /\ resized.size.height # 0 /\ event # "none" =>
          /\ config = resized.size
          /\ depth_texture = resized.size
          /\ event = "Resized" =>
                resized.calls = <<ResizeCall("renderer", resized.size),
                                  ResizeCall("app", resized.size)>>
    /\ config.width # 0 /\ config.height # 0
    /\ depth_texture = config

\* A size of width 0 and height 3 arrived after the surface had been resized
\* to 3 by 3, and a tick ran since.
C25_Witness ==
    /\ TickDone
    /\ resized.size = Size(0, 3)
    /\ resized.calls = <<>>
    /\ config = Size(3, 3)
    /\ depth_texture = Size(3, 3)


\* ------------------------------------------------------- claims: the scene

\* The Transform whose affine form is g.
PoseOf(g) ==
    [s |-> IF g.m < 0 THEN -g.m ELSE g.m, r |-> IF g.m < 0 THEN -1 ELSE 1,
     x |-> g.x, y |-> g.y]

\* The cameras the sync of a tick is to write.
SyncedCameras ==
    {e \in alive : camera[e] \in CameraKinds /\ camera_wgpu[e] /\ HasGlobal(e)}

\* C22: once the camera sync of a tick has run, the uniform of every camera,
\* perspective or orthographic, is the one computed from its GlobalTransform of
\* this tick, so the camera of a ParentLink is where its parent took it, and
\* the position in the uniform is the translation of the GlobalTransform, which
\* is the camera position the prep of Ui3dRenderer uses.
C22_CameraSyncUsesWorldPose ==
    InTrace(Step("camera_sync", "renderer")) =>
       \A e \in SyncedCameras :
          /\ uniform[e] = CameraUniform(camera[e], PoseOf(global[e]))
          /\ uniform[e].x = global[e].x
          /\ uniform[e].y = global[e].y


\* C24: every tick runs App::update once, as its first step and with the time
\* of this tick already stored, and what update wrote is what the tick
\* resolves and draws: once both passes have run, an entity without a
\* ParentLink has the GlobalTransform of its Transform as update left it and
\* an entity on a ParentLink the pose of its parent times the offset as update
\* left it, and once ModelRenderer was prepared its batches are those of the
\* models as update left them.
C24_UpdateBeforeResolve ==
    /\ trace # <<>> =>
          /\ trace[1] = Step("update", "app")
          /\ Cardinality(StepsOf("update")) = 1
          /\ Len(SelectSeq(trace, LAMBDA s : s.step = "update")) = 1
          /\ time = frame
          /\ update_saw.time = time
    /\ InTrace(Step("hierarchy", "spatial")) =>
          \A e \in alive :
             /\ (HasGlobal(e) /\ transform[e] # NoTransform /\ ~HasLink(e)) =>
                   global[e] = ToAffine(transform[e])
             /\ (HasGlobal(e) /\ HasLink(e) /\ local[e].parent \in alive
                   /\ ~HasLink(local[e].parent) /\ HasGlobal(local[e].parent)) =>
                   global[e] = Mul(global[local[e].parent],
                                   ToAffine(local[e].transform))
    /\ InTrace(Step("prep", "model")) => KeysOf(model_instances) = NowModel

\* A tick whose update gave the body the scale of 2 has presented: the body
\* and the camera on its ParentLink have the poses of that Transform, and a
\* model written by an earlier update is the one batch.
C24_Witness ==
    /\ TickDone
    /\ outcome[2] = "presented"
    /\ op = "SceneSetTransform"
    /\ transform[1] = Scale2
    /\ global[1] = ToAffine(Scale2)
    /\ HasLink(2)
    /\ global[2] = Mul(ToAffine(Scale2), ToAffine(local[2].transform))
    /\ KeysOf(model_instances) = {<<1, 2>>}


\* ---------------------------------------------------- claims: the event loop

\* C27: once a tick has run, ticks keep beginning for as long as the loop was
\* not told to exit by CloseRequested, given that the scheduled wake-ups and
\* the requested redraws are delivered: no input, no resize, no failed
\* acquisition and nothing a tick does ends the run of ticks.
C27_FrameLoopLiveness ==
    (frame > 0) ~> (exited \/ pc = "flat")

\* Every RedrawRequested leaves a wake-up scheduled and no redraw pending until
\* the wake-up arrives, and the wake-up leaves a redraw requested.
LoopSchedules ==
    /\ frame > 0 /\ ~exited => wake \/ redraw
    /\ event = "RedrawRequested" => wake /\ ~redraw
    /\ event = "ResumeTimeReached" => redraw /\ ~wake

\* The same run of ticks, but for a tick that panicked.
LoopRunsUnlessPanic ==
    (frame > 0) ~> (exited \/ panicked \/ pc = "flat")


\* ------------------------------------------------------ claims: the surface

\* C34: after any sequence of Resized events, those without area included,
\* the depth texture has the width and the height of the surface
\* configuration, and neither is 0 in either dimension.
C34_DepthMatchesSurface ==
    /\ depth_texture.width = config.width
    /\ depth_texture.height = config.height
    /\ config.width > 0
    /\ config.height > 0

\* The surface was resized to 3 by 3 and then an event of width 3 and height 0
\* was refused: it is the last event, and surface and depth texture are 3 by 3.
C34_Witness ==
    /\ event = "Resized"
    /\ resized.size = Size(3, 0)
    /\ resized.calls = <<>>
    /\ config = Size(3, 3)
    /\ depth_texture = Size(3, 3)


\* ------------------------------------------------- claims: the edges of input

\* What App::update of the tick under way found for a key or a button.
SawOf(val) ==
    IF val \in KeyCodes THEN update_saw.keys ELSE update_saw.mouse_buttons

\* What the reset of the tick before found for it.
ResetOf(val) ==
    IF val \in KeyCodes THEN reset_saw.keys ELSE reset_saw.mouse_buttons

\* App::update found val pressed just now and still pressed.
JustPressedIsPressed(val) ==
    val \in SawOf(val).just_pressed => val \in SawOf(val).pressed

\* App::update found val pressed just now, and either val was not pressed when
\* the inputs were last reset or it was released since.
JustPressedIsEdge(val) ==
    val \in SawOf(val).just_pressed =>
       \/ val \notin ResetOf(val).pressed
       \/ val \in SawOf(val).released

\* C31: when App::update runs, a key or a button that is just_pressed is
\* pressed, and it is just_pressed only if it went from not pressed to pressed
\* since the reset of the tick before, whatever presses and releases arrived
\* between the two ticks.
C31_JustPressedIsEdge ==
    pc = "flat" =>
       \A val \in KeyCodes \cup MouseButtons :
          /\ JustPressedIsPressed(val)
          /\ JustPressedIsEdge(val)


\* --------------------------------------------------- claims: the mesh loader

\* The ids held by meshes: those returned and those of the calls under way.
MeshIdsHeld ==
    mesh_loaded \o
    SelectSeq([i \in 1..Cardinality(MeshThreads) |->
                  mesh_loading[CHOOSE t \in MeshThreads :
                                  Cardinality({u \in MeshThreads : u < t}) = i - 1]],
              LAMBDA id : id # NoMeshId)

\* C33: as long as no more calls of load_mesh were made than the counter has
\* values, the ids come in the order 0, 1, 2, .. of the counter, and no two
\* meshes, returned or still inside load_mesh on any thread, have the same id.
C33_MeshIdsUnique ==
    Len(mesh_handed) <= 2 ^ MeshIdBits =>
       /\ \A i \in DOMAIN mesh_handed : mesh_handed[i] = i - 1
       /\ \A i, j \in DOMAIN MeshIdsHeld :
             i # j => MeshIdsHeld[i] # MeshIdsHeld[j]
       /\ Len(MeshIdsHeld) = Len(mesh_handed)

\* Every value of the counter was handed out, calls overlapped, and a mesh
\* that took its id later was returned before one that took it earlier.
C33_Witness ==
    /\ Len(mesh_handed) = 2 ^ MeshIdBits
    /\ Len(mesh_loaded) = 2 ^ MeshIdBits
    /\ \E i \in 1..(Len(mesh_loaded) - 1) : mesh_loaded[i] > mesh_loaded[i + 1]


\* ------------------------------------------------------- claims: the runner

\* Nothing of the engine has happened: no tick, no input, no resize, no
\* wake-up, no redraw request, no exit.
NothingHappened ==
    /\ frame = 0
    /\ trace = <<>>
    /\ pc = "update"
    /\ keys = InputDefault
    /\ mouse_buttons = InputDefault
    /\ \A val \in KeyCodes \cup MouseButtons : last_event[val] = "none"
    /\ config = WindowSize
    /\ depth_texture = WindowSize
    /\ resized.calls = <<>>
    /\ ~wake
    /\ ~redraw
    /\ ~exited

\* One step of the runner: the state is created by the resumed that finds
\* none and by nothing else, a resumed that finds a state changes nothing
\* but the event delivered last, and while there is no state nothing has
\* happened.
RunnerStep ==
    /\ states_created' = IF event' = "Resumed" /\ ~state_is_some
                            THEN states_created + 1
                            ELSE states_created
    /\ state_is_some' = (state_is_some \/ event' = "Resumed")
    /\ states_created' = IF state_is_some' THEN 1 ELSE 0
    /\ event' = "Resumed" /\ state_is_some =>
          UNCHANGED <<spatialVars, batchVars, frameVars, inputVars, runnerVars,
                      loaderVars, time, update_saw, last_event, config,
                      depth_texture, resized, wake, redraw, exited>>
    /\ ~state_is_some' => NothingHappened'

\* C32: the engine state is created once, by the first resumed; every later
\* resumed leaves the state as it is; every window event, device event and
\* new_events that arrives before the first resumed does nothing: no tick, no
\* input recorded, no redraw requested.
C32_RunnerStateLifecycle ==
    [][RunnerStep]_vars

\* After events that arrived before the first resumed, a state was created,
\* a key pressed, a tick run, and a second resumed has just arrived.
C32_Witness ==
    /\ event = "Resumed"
    /\ state_is_some
    /\ states_created = 1
    /\ TickDone
    /\ keys.pressed # {}
    /\ config = Size(3, 3)

\* What the fold of TextureRenderer::prep would leave for the current world and
\* the current buffers.
SpritesFolded ==
    FoldSprites(QuerySprites(alive, global, sprite), sprite, texture_instances,
                [acc |-> EmptyMap, textures_to_add |-> {}])

\* C37: TextureRenderer::prep never has to create a buffer for a texture id
\* that is missing from textures_to_add: every id of the fold's result without
\* a buffer is remembered there, so the unwrap of the creation never fails, and
\* a buffer created by a prep holds the texture of its id.
C37_CreationHasItsTexture ==
    /\ (DOMAIN SpritesFolded.acc) \ (DOMAIN texture_instances)
           \subseteq SpritesFolded.textures_to_add
    /\ ~TexturePrep(texture_instances, alive, global, sprite).panicked
    /\ "texture" \in prepped =>
           /\ ~panicked
           /\ \A t \in TextureIds :
                  texture_trace.calls[t].created > 0 =>
                      /\ t \notin DOMAIN texture_trace.before
                      /\ t \in DOMAIN texture_instances
                      /\ texture_instances[t].texture = t

\* A prep created the buffer of one texture while it kept the buffer of another.
C37_Witness ==
    /\ "texture" \in prepped
    /\ ~panicked
    /\ \E t, u \in TextureIds :
           /\ t # u
           /\ texture_trace.calls[t].created = 1
           /\ u \in DOMAIN texture_trace.before
           /\ texture_trace.calls[u].updated = 1

\* The greatest length among the options.
RECURSIVE MaxLen(_)
MaxLen(options) ==
    IF options = <<>>
       THEN 0
       ELSE LET m == MaxLen(Tail(options))
            IN  IF Head(options) > m THEN Head(options) ELSE m

\* C35: for every Ui3d with options, the line taken as longest_line has the
\* greatest length among the options, so the width written to the UI uniform
\* is font_size times the length of the longest option.
C35_PanelWidthUsesLongest ==
    ui_raw.written =>
        /\ LongestLine(menu.options) = MaxLen(menu.options)
        /\ ui_raw.size[1] = MaxLen(menu.options)

\* C36: for every Ui3d with n >= 1 options and every selected, the index the
\* highlight band is computed from is an index of an option, 0 .. n - 1, so
\* the band [index / n, (index + 1) / n] lies within [0, 1]; also for lists
\* that are too long for the width of selected, where the length is narrowed.
C36_SelectionInRange ==
    ui_raw.written =>
        /\ 0 <= Selected(menu)
        /\ Selected(menu) <= Len(menu.options) - 1
        /\ 0 <= ui_raw.selection_range_y[1]
        /\ ui_raw.selection_range_y[2] <= ui_raw.option_count

=========================================================================
